---- MODULE Spec2Model ----
(***************************************************************************)
(* A model of the paged-attention core of atoma-paged-attention:           *)
(*   - the block-table-indexed attention dispatcher                        *)
(*     (src/src/backend/mod.rs, PagedAttention::cuda_fwd_t),               *)
(*   - the cache write (src/src/backend/mod.rs, reshape_and_cache),        *)
(*   - the drivers that build slot mappings, block tables and attention    *)
(*     metadata around Llama::forward (src/models/src/llama.rs).           *)
(* A tensor is the record of what the code inspects: the device of its     *)
(* storage, its element type and its shape.                                *)
(***************************************************************************)
EXTENDS Integers, Sequences, FiniteSets, TLC

VARIABLES
    attn_pc,      \* "idle" before paged_attention is called, "done" after
    attn_call,    \* the arguments of the paged_attention call
    attn_out,     \* what the call did: result, error, kernel, allocations
    rc_pc,        \* "idle" before reshape_and_cache is called, "done" after
    rc_call,      \* the arguments of the reshape_and_cache call
    rc_out,       \* result of the reshape_and_cache call
    key_cache_data,   \* content of the key cache, per slot
    value_cache_data, \* content of the value cache, per slot
    drv,              \* the driver that runs: "none" until one starts
    drv_pc,           \* "start", "decode" (in the decoding loop), "done",
                      \* or "failed" (a forward call returned an error)
    eos_token_id,     \* "Some" or "None": whether an end token is known
    tokens,           \* tokens[i]: number of tokens of sequence i so far
    allocated_blocks, \* the block table kept by the random-order driver
    token_size_allocation, \* slots reserved per sequence (batch driver)
    active_indices,   \* the sequences still decoding (batch driver)
    iter,             \* iterations of the decoding loop completed
    call,             \* the arguments of the latest Llama::forward call
    fwd_pc,       \* where Llama::forward stands: "idle", "block",
                  \* "attention", "residual", "final", "done", "failed"
                  \* (it returned an error) or "panicked"
    fwd_call,     \* the arguments of the Llama::forward call
    fwd_layer,    \* index of the transformer block being run
    fwd_trace,    \* the steps the call has performed, in order
    fwd_written,  \* per cache, the tokens of the batch scattered into it
    fwd_out,      \* the result of the call
    cm_pc,        \* "idle", "copied" after copy_blocks, "swapped" after
                  \* swap_blocks
    cm_call,      \* the arguments of the latest maintenance call
    cm_out,       \* its result
    cm_calls,     \* the number of copy_blocks calls made
    cm_kv,        \* content of the per-layer caches given to copy_blocks
    cm_first,     \* the caches as the first copy_blocks call left them
    cm_src,       \* content of the source store of swap_blocks
    cm_dst,       \* content of the destination store of swap_blocks
    pa_pc,        \* where PagedAttention::forward stands: "idle",
                  \* "attention", "layout", "cache", "return", "done",
                  \* "failed" or "no_value"
    pa_call,      \* the arguments of the PagedAttention::forward call
    pa_trace,     \* what the call has computed or written, in order
    pa_out,       \* the result of the call
    rt_pc,        \* "idle" until a sequence is prefilled, then "written"
    rt_table,     \* the block table of the sequence
    rt_len,       \* the number of positions of the sequence written
    rt_key_cache,   \* content of its key cache, per slot
    rt_value_cache  \* content of its value cache, per slot

attn_vars == <<attn_pc, attn_call, attn_out>>
rc_vars == <<rc_pc, rc_call, rc_out, key_cache_data, value_cache_data>>
drv_vars == <<drv, drv_pc, eos_token_id, tokens, allocated_blocks,
              token_size_allocation, active_indices, iter, call>>
fwd_vars == <<fwd_pc, fwd_call, fwd_layer, fwd_trace, fwd_written, fwd_out>>
cm_vars == <<cm_pc, cm_call, cm_out, cm_calls, cm_kv, cm_first, cm_src, cm_dst>>
pa_vars == <<pa_pc, pa_call, pa_trace, pa_out>>
rt_vars == <<rt_pc, rt_table, rt_len, rt_key_cache, rt_value_cache>>
ext_vars == <<fwd_vars, cm_vars, pa_vars, rt_vars>>
vars == <<attn_vars, rc_vars, drv_vars, ext_vars>>

(***************************************************************************)
(* Tensors and shapes                                                      *)
(***************************************************************************)
Tensor(dev, dtype, shape) == [dev |-> dev, dtype |-> dtype, shape |-> shape]

RECURSIVE elem_count(_)
elem_count(shape) ==
    IF shape = <<>> THEN 1 ELSE Head(shape) * elem_count(Tail(shape))

NoCall == [none |-> TRUE]

(***************************************************************************)
(* Attention dispatcher: src/src/backend/mod.rs                            *)
(***************************************************************************)
PARTITION_SIZE == 512

\* The outcome of a call that bailed out with message msg.
Err(msg) ==
    [result |-> "err", err |-> msg, kernel |-> "none", out_alloc |-> FALSE,
     max_num_partitions |-> 0, tmp_out_shape |-> <<>>, exp_sums_shape |-> <<>>]

supported_head_sizes == {64, 80, 96, 112, 128, 192, 256}

head_size_matches(head_size) == head_size \in {64, 80, 96, 112, 128, 256}

max_num_partitions_of(max_sequence_length) ==
    (max_sequence_length + PARTITION_SIZE - 1) \div PARTITION_SIZE

use_v1_ge(max_num_partitions, num_sequences, num_heads, block_size) ==
    /\ (max_num_partitions = 1 \/ num_sequences * num_heads >= PARTITION_SIZE)
    /\ PARTITION_SIZE % block_size = 0

use_v1(max_num_partitions, num_sequences, num_heads, block_size) ==
    /\ (max_num_partitions = 1 \/ num_sequences * num_heads > PARTITION_SIZE)
    /\ PARTITION_SIZE % block_size = 0

block_tables_mismatch(num_sequences_block_table, num_sequences) ==
    num_sequences_block_table # num_sequences

key_cache_mismatch(head_size_kc, head_size, x) ==
    head_size_kc # head_size \div x

value_cache_mismatch(num_blocks, num_kv_heads, head_size, block_size, vc_shape) ==
    <<num_blocks, num_kv_heads, head_size, block_size>> # vc_shape

sequence_lengths_mismatch_off(num_sequences, sl_shape) == FALSE

sequence_lengths_mismatch(num_sequences, sl_shape) ==
    num_sequences # sl_shape[1]

\* The kernel launch and what precedes it once every check has passed.
dispatch(op, storage) ==
    LET num_sequences == storage.shape[1]
        num_heads == storage.shape[2]
        head_size == storage.shape[3]
        block_size == op.key_cache.shape[4]
        max_num_partitions == max_num_partitions_of(op.max_sequence_length)
        v1 == use_v1(max_num_partitions, num_sequences, num_heads, block_size)
    IN  [result |-> "ok", err |-> "", out_alloc |-> TRUE,
         kernel |-> IF v1 THEN "v1" ELSE "v2",
         max_num_partitions |-> max_num_partitions,
         tmp_out_shape |->
            IF v1 THEN <<>>
            ELSE <<num_sequences, num_heads, max_num_partitions, head_size>>,
         exp_sums_shape |->
            IF v1 THEN <<>>
            ELSE <<num_sequences, num_heads, max_num_partitions>>]

cuda_fwd_t(op, storage) ==
    LET T == storage.dtype
        kc == op.key_cache
        vc == op.value_cache
        bt == op.block_tables
        sl == op.sequence_lengths
        num_sequences == storage.shape[1]
        head_size == storage.shape[3]
    IN  IF T \notin {"F32", "F16", "BF16"}
            THEN Err("Unsupported dtype for paged attention")
        ELSE IF kc.dev # "Cuda" THEN Err("key_cache must be a Cuda tensor")
        ELSE IF vc.dev # "Cuda" THEN Err("value_cache must be a Cuda tensor")
        ELSE IF bt.dev # "Cuda" THEN Err("block_tables must be a Cuda tensor")
        ELSE IF sl.dev # "Cuda"
            THEN Err("sequence_lengths must be a Cuda tensor")
        ELSE IF Len(storage.shape) # 3 THEN Err("q rank")
        ELSE IF Len(kc.shape) # 5 THEN Err("key_cache rank")
        ELSE IF Len(vc.shape) # 4 THEN Err("value_cache rank")
        ELSE IF kc.dtype # T THEN Err("key_cache as_cuda_slice")
        ELSE IF vc.dtype # T THEN Err("value_cache as_cuda_slice")
        ELSE IF bt.dtype # "I64" THEN Err("block_tables as_cuda_slice")
        ELSE IF sl.dtype # "I64" THEN Err("sequence_lengths as_cuda_slice")
        ELSE IF ~ head_size_matches(head_size) THEN Err("head_size")
        ELSE IF Len(bt.shape) # 2 THEN Err("block_tables dims2")
        ELSE IF block_tables_mismatch(bt.shape[1], num_sequences)
            THEN Err("block_tables shape mismatch")
        ELSE IF key_cache_mismatch(kc.shape[3], head_size, kc.shape[5])
            THEN Err("key_cache shape mismatch")
        ELSE IF value_cache_mismatch(kc.shape[1], kc.shape[2], head_size,
                                     kc.shape[4], vc.shape)
            THEN Err("value_cache shape mismatch")
        ELSE IF Len(sl.shape) # 1 THEN Err("sequence_lengths dims1")
        ELSE IF sequence_lengths_mismatch(num_sequences, sl.shape)
            THEN Err("sequence_lengths shape mismatch")
        ELSE dispatch(op, storage)

cpu_fwd(op, storage) == Err("PagedAttention is not implemented for CPU")

cuda_fwd(op, storage) ==
    IF storage.dtype \in {"F32", "F16", "BF16"}
        THEN cuda_fwd_t(op, storage)
        ELSE Err("Unsupported dtype for paged attention")

\* query.apply_op1(attention): the storage of the query selects the path.
apply_op1(query, op) ==
    IF query.dev = "Cuda" THEN cuda_fwd(op, query) ELSE cpu_fwd(op, query)

(***************************************************************************)
(* Arguments of paged_attention.  A well-formed call has every tensor on   *)
(* the CUDA device, caches of the element type of the query, and shapes    *)
(* built from one head size; the faulty calls replace one or two tensors   *)
(* of a well-formed call by a tensor that is wrong in one respect.         *)
(***************************************************************************)
AttnCall(dtype, ns, nh, hs, bs, x, cols, msl) ==
    [query |-> Tensor("Cuda", dtype, <<ns, nh, hs>>),
     key_cache |-> Tensor("Cuda", dtype, <<64, 4, hs \div x, bs, x>>),
     value_cache |-> Tensor("Cuda", dtype, <<64, 4, hs, bs>>),
     block_tables |-> Tensor("Cuda", "I64", <<ns, cols>>),
     sequence_lengths |-> Tensor("Cuda", "I64", <<ns>>),
     max_sequence_length |-> msl]

AttnGoodCalls ==
    { AttnCall(dtype, ns, nh, hs, bs, x, cols, msl) :
        dtype \in {"F32", "F16", "BF16"}, ns \in {1, 2}, nh \in {256, 512},
        hs \in {32, 64, 80, 96, 100, 112, 128, 192, 256},
        bs \in {16, 24}, x \in {8, 32}, cols \in {0, 1, 33},
        msl \in {0, 1, 16, 17, 512, 513} }

OtherDType(dtype) == IF dtype = "F16" THEN "F32" ELSE "F16"

AttnVariants(f, c) ==
    LET t == c[f]
        s == t.shape
        devs == { [t EXCEPT !.dev = "Cpu"] }
        shapes(S) == { [t EXCEPT !.shape = sh] : sh \in S }
    IN  IF f = "query" THEN
            devs \cup { [t EXCEPT !.dtype = "U8"] }
                 \cup shapes({ <<s[1], s[3]>>, <<1>> \o s })
        ELSE IF f = "key_cache" THEN
            devs \cup { [t EXCEPT !.dtype = OtherDType(t.dtype)],
                        [t EXCEPT !.dtype = "U8"] }
                 \cup shapes({ SubSeq(s, 1, 4), s \o <<1>>,
                               [s EXCEPT ![3] = s[3] + 1] })
        ELSE IF f = "value_cache" THEN
            devs \cup { [t EXCEPT !.dtype = OtherDType(t.dtype)],
                        [t EXCEPT !.dtype = "U8"] }
                 \cup shapes({ SubSeq(s, 1, 3), s \o <<1>>,
                               [s EXCEPT ![1] = s[1] + 1],
                               [s EXCEPT ![2] = s[2] + 1],
                               [s EXCEPT ![3] = s[3] + 8],
                               [s EXCEPT ![4] = s[4] + 1] })
        ELSE IF f = "block_tables" THEN
            devs \cup { [t EXCEPT !.dtype = "U32"] }
                 \cup shapes({ <<s[1]>>, [s EXCEPT ![1] = s[1] + 1] })
        ELSE
            devs \cup { [t EXCEPT !.dtype = "U32"] }
                 \cup shapes({ <<s[1], 1>>, <<s[1] + 1>> })

AttnFields ==
    {"query", "key_cache", "value_cache", "block_tables", "sequence_lengths"}

AttnFaultBases ==
    { AttnCall(dtype, 1, 256, hs, 16, 8, 33, 512) :
        dtype \in {"F16", "F32"}, hs \in {64, 100, 192} }

AttnFaultyCalls ==
    UNION { UNION { UNION {
        { [[c EXCEPT ![f1] = v1] EXCEPT ![f2] = v2] :
            v1 \in AttnVariants(f1, c), v2 \in AttnVariants(f2, c) } :
        f2 \in AttnFields } : f1 \in AttnFields } : c \in AttnFaultBases }

AttnCalls == AttnGoodCalls \cup AttnFaultyCalls

\* pub fn paged_attention: builds the operator and applies it to the query.
paged_attention ==
    /\ attn_pc = "idle"
    /\ \E c \in AttnCalls :
        /\ attn_call' = c
        /\ attn_out' = apply_op1(c.query, c)
    /\ attn_pc' = "done"
    /\ UNCHANGED <<rc_vars, drv_vars, ext_vars>>

(***************************************************************************)
(* Cache write: src/src/backend/mod.rs, reshape_and_cache.                 *)
(* The key, value and slot_mapping tensors also carry their content, one   *)
(* entry per token; a cache holds one entry per slot, 0 while unwritten.   *)
(***************************************************************************)
CacheBlocks == 2
CacheBlockSize == 2
RcMaxTokens == 2

CacheSlots == 0 .. (CacheBlocks * CacheBlockSize - 1)
EmptyCache == [s \in CacheSlots |-> 0]

DataTensor(dev, dtype, shape, data) ==
    [dev |-> dev, dtype |-> dtype, shape |-> shape, data |-> data]

RcErr(msg) == [result |-> "err", err |-> msg, kernel_called |-> FALSE]

key_value_mismatch_tokens(key_shape, value_shape) ==
    key_shape[1] # value_shape[1]

key_value_mismatch(key_shape, value_shape) == key_shape # value_shape

rc_key_cache_mismatch(num_heads_kc, num_heads, head_size_kc, head_size, x) ==
    num_heads_kc # num_heads \/ head_size_kc # head_size \div x

rc_value_cache_mismatch(num_blocks, num_heads, head_size, block_size, vc_shape) ==
    <<num_blocks, num_heads, head_size, block_size>> # vc_shape

slot_mapping_mismatch_off(num_tokens, sm_shape) == FALSE

slot_mapping_mismatch(num_tokens, sm_shape) == num_tokens # sm_shape[1]

\* The checks of reshape_and_cache_t, in the order of the code: the outcome
\* is the error of the first check that fails, or a kernel launch.
reshape_and_cache_t(T, c) ==
    LET key == c.key
        value == c.value
        kc == c.key_cache
        vc == c.value_cache
        sm == c.slot_mapping
    IN  IF key.dev # "Cuda" THEN RcErr("key must be a Cuda tensor")
        ELSE IF value.dev # "Cuda" THEN RcErr("value must be a Cuda tensor")
        ELSE IF kc.dev # "Cuda" THEN RcErr("key_cache must be a Cuda tensor")
        ELSE IF vc.dev # "Cuda"
            THEN RcErr("value_cache must be a Cuda tensor")
        ELSE IF sm.dev # "Cuda"
            THEN RcErr("slot_mapping must be a Cuda tensor")
        ELSE IF Len(key.shape) # 3 \/ Len(value.shape) # 3
            THEN RcErr("key rank")
        ELSE IF Len(kc.shape) # 5 THEN RcErr("key_cache rank")
        ELSE IF Len(vc.shape) # 4 THEN RcErr("value_cache rank")
        ELSE IF key.dtype # T THEN RcErr("key as_cuda_slice")
        ELSE IF value.dtype # T THEN RcErr("value as_cuda_slice")
        ELSE IF kc.dtype # T THEN RcErr("key_cache as_cuda_slice")
        ELSE IF vc.dtype # T THEN RcErr("value_cache as_cuda_slice")
        ELSE IF sm.dtype # "I64" THEN RcErr("slot_mapping as_cuda_slice")
        ELSE IF key_value_mismatch(key.shape, value.shape)
            THEN RcErr("key and value shape")
        ELSE IF rc_key_cache_mismatch(kc.shape[2], key.shape[2], kc.shape[3],
                                      key.shape[3], kc.shape[5])
            THEN RcErr("key_cache shape mismatch")
        ELSE IF rc_value_cache_mismatch(kc.shape[1], key.shape[2],
                                        key.shape[3], kc.shape[4], vc.shape)
            THEN RcErr("value_cache shape mismatch")
        ELSE IF Len(sm.shape) # 1 THEN RcErr("slot_mapping dims1")
        ELSE IF slot_mapping_mismatch(key.shape[1], sm.shape)
            THEN RcErr("slot_mapping shape mismatch")
        ELSE [result |-> "ok", err |-> "", kernel_called |-> TRUE]

reshape_and_cache_outcome_any_dtype(c) ==
    reshape_and_cache_t(c.key_cache.dtype, c)

reshape_and_cache_outcome(c) ==
    IF c.key_cache.dtype \in {"F16", "BF16", "F32"}
        THEN reshape_and_cache_t(c.key_cache.dtype, c)
        ELSE RcErr("Unsupported data type of key_cache")

\* The outcomes of the writes to the slots of S: each slot keeps the token
\* of one of its writers.
RECURSIVE kernel_writes(_, _, _, _, _)
kernel_writes(cache, data, slots, n, S) ==
    IF S = {} THEN {cache}
    ELSE LET s == CHOOSE t \in S : TRUE
         IN  UNION { kernel_writes([cache EXCEPT ![s] = data[i]], data,
                                   slots, n, S \ {s}) :
                        i \in { k \in 1..n : slots[k] = s } }

\* The write kernel: token i is stored at slot slots[i].  Two tokens sent
\* to one slot race, and either may be the one that stays.
reshape_and_cache_kernel(cache, data, slots) ==
    LET n == IF Len(data) < Len(slots) THEN Len(data) ELSE Len(slots)
        written == { s \in DOMAIN cache : \E i \in 1..n : slots[i] = s }
    IN  kernel_writes(cache, data, slots, n, written)

RcCall(dtype, nt, slots) ==
    [key |-> DataTensor("Cuda", dtype, <<nt, 4, 64>>,
                        [i \in 1..nt |-> 10 + i]),
     value |-> DataTensor("Cuda", dtype, <<nt, 4, 64>>,
                          [i \in 1..nt |-> 20 + i]),
     key_cache |-> Tensor("Cuda", dtype,
                          <<CacheBlocks, 4, 8, CacheBlockSize, 8>>),
     value_cache |-> Tensor("Cuda", dtype,
                            <<CacheBlocks, 4, 64, CacheBlockSize>>),
     slot_mapping |-> DataTensor("Cuda", "I64", <<Len(slots)>>, slots)]

\* Calls with well-formed tensors; the slot mapping has any length up to
\* one more than the largest number of tokens.
RcPlainCalls ==
    { RcCall(dtype, nt, slots) :
        dtype \in {"F16", "BF16", "F32", "U8"}, nt \in 1..RcMaxTokens,
        slots \in UNION { [1..k -> CacheSlots] : k \in 1..(RcMaxTokens + 1) } }

RcVariants(f, c) ==
    LET t == c[f]
        s == t.shape
        devs == { [t EXCEPT !.dev = "Cpu"] }
        shapes(S) == { [t EXCEPT !.shape = sh] : sh \in S }
    IN  IF f \in {"key", "value"} THEN
            devs \cup { [t EXCEPT !.dtype = OtherDType(t.dtype)],
                        [t EXCEPT !.dtype = "U8"] }
                 \cup shapes({ <<s[1], s[3]>>, <<1>> \o s,
                               [s EXCEPT ![1] = s[1] + 1],
                               [s EXCEPT ![2] = s[2] + 1],
                               [s EXCEPT ![3] = s[3] + 8] })
        ELSE IF f = "key_cache" THEN
            devs \cup { [t EXCEPT !.dtype = "U8"],
                        [t EXCEPT !.dtype = OtherDType(t.dtype)] }
                 \cup shapes({ SubSeq(s, 1, 4), s \o <<1>>,
                               [s EXCEPT ![2] = s[2] + 1],
                               [s EXCEPT ![3] = s[3] + 1] })
        ELSE IF f = "value_cache" THEN
            devs \cup { [t EXCEPT !.dtype = OtherDType(t.dtype)],
                        [t EXCEPT !.dtype = "U8"] }
                 \cup shapes({ SubSeq(s, 1, 3), s \o <<1>>,
                               [s EXCEPT ![1] = s[1] + 1],
                               [s EXCEPT ![2] = s[2] + 1],
                               [s EXCEPT ![3] = s[3] + 8],
                               [s EXCEPT ![4] = s[4] + 1] })
        ELSE
            devs \cup { [t EXCEPT !.dtype = "U32"] }
                 \cup shapes({ <<s[1], 1>> })

RcFields == {"key", "value", "key_cache", "value_cache", "slot_mapping"}

RcFaultBases ==
    { RcCall(dtype, 2, <<0, CacheBlocks * CacheBlockSize - 1>>) :
        dtype \in {"F16", "F32"} }

RcFaultyCalls ==
    UNION { UNION { UNION {
        { [[c EXCEPT ![f1] = v1] EXCEPT ![f2] = v2] :
            v1 \in RcVariants(f1, c), v2 \in RcVariants(f2, c) } :
        f2 \in RcFields } : f1 \in RcFields } : c \in RcFaultBases }

RcCalls == RcPlainCalls \cup RcFaultyCalls

\* pub fn reshape_and_cache: the checks, then the write kernel on both caches.
reshape_and_cache ==
    /\ rc_pc = "idle"
    /\ \E c \in RcCalls :
        LET out == reshape_and_cache_outcome(c)
        IN  /\ rc_call' = c
            /\ rc_out' = out
            /\ IF out.kernel_called
                THEN /\ key_cache_data' \in
                            reshape_and_cache_kernel(key_cache_data,
                                c.key.data, c.slot_mapping.data)
                     /\ value_cache_data' \in
                            reshape_and_cache_kernel(value_cache_data,
                                c.value.data, c.slot_mapping.data)
                ELSE UNCHANGED <<key_cache_data, value_cache_data>>
    /\ rc_pc' = "done"
    /\ UNCHANGED <<attn_vars, drv_vars, ext_vars>>

(***************************************************************************)
(* Drivers of Llama::forward: src/models/src/llama.rs, tests.              *)
(* A token sequence is represented by its length: the value of a token     *)
(* matters only for being the end token when it is sampled.  A forward     *)
(* call is the record of its arguments; token_seq and rows name, for each  *)
(* token and each block-table row, the sequence it belongs to.             *)
(***************************************************************************)
test_block_size == 16
test_num_blocks == 100
batch_num_blocks == 1000

MaxPromptLen == 17
SampleLen == 4
NumPrompts == 2

Range(f) == { f[k] : k \in DOMAIN f }

\* Tensor::arange(lo, hi), empty when hi <= lo.
arange(lo, hi) == [k \in 1..(hi - lo) |-> lo + k - 1]

RECURSIVE Flatten(_)
Flatten(ss) == IF ss = <<>> THEN <<>> ELSE Head(ss) \o Flatten(Tail(ss))

RECURSIVE Sum(_)
Sum(ss) == IF ss = <<>> THEN 0 ELSE Head(ss) + Sum(Tail(ss))

Max(S) == CHOOSE m \in S : \A n \in S : n <= m

\* The cache write refuses a slot mapping whose length is not the number of
\* tokens (backend/mod.rs, reshape_and_cache_t); the error travels through
\* Llama::forward to the driver, which returns it.
forward_ok(c) == Len(c.slot_mapping) = c.x_len

\* The break of the decoding loops on an end token.
is_eos(next_token) == eos_token_id = "Some" /\ next_token = 1

\* ---- test_llama_model --------------------------------------------------
\* let sample_len = 32: the decoding loop of test_llama_model runs
\* sample_len - 1 times at most.
sample_len == 32

single_num_blocks_one(len) == 1

single_num_blocks(len) == (len \div test_block_size) + 1

single_prefill ==
    /\ drv = "none"
    /\ \E len \in 1..MaxPromptLen, eos \in {"Some", "None"} :
        /\ eos_token_id' = eos
        /\ call' = [driver |-> "single", kind |-> "prefill", x_len |-> len,
                    input_positions |-> arange(0, len),
                    token_seq |-> [k \in 1..len |-> 0],
                    selected_token_indices |-> <<len - 1>>,
                    slot_mapping |-> arange(0, len),
                    num_prefill_tokens |-> len,
                    num_decoding_tokens |-> 0,
                    prefill_metadata |-> "Some",
                    decoding_metadata |-> "None",
                    query_start_locations |-> <<0, len>>,
                    sequence_start_locations |-> <<0, len>>,
                    block_tables |-> <<>>,
                    num_blocks_per_sequence |-> <<>>,
                    rows |-> <<>>,
                    sequence_lengths |-> <<len>>]
        /\ tokens' = [i \in {0} |-> len + 1]
    /\ drv' = "single"
    /\ drv_pc' = "decode"
    /\ UNCHANGED <<allocated_blocks, token_size_allocation, active_indices,
                   iter, attn_vars, rc_vars, ext_vars>>

single_decode ==
    /\ drv = "single" /\ drv_pc = "decode" /\ iter < sample_len - 1
    /\ LET len == tokens[0]
           nb == single_num_blocks(len)
       IN  /\ call' = [driver |-> "single", kind |-> "decode", x_len |-> 1,
                       input_positions |-> <<len - 1>>,
                       token_seq |-> <<0>>,
                       selected_token_indices |-> <<0>>,
                       slot_mapping |-> <<len - 1>>,
                       num_prefill_tokens |-> 0,
                       num_decoding_tokens |-> 1,
                       prefill_metadata |-> "None",
                       decoding_metadata |-> "Some",
                       query_start_locations |-> <<>>,
                       sequence_start_locations |-> <<>>,
                       block_tables |-> << arange(0, nb) >>,
                       num_blocks_per_sequence |-> <<nb>>,
                       rows |-> <<0>>,
                       sequence_lengths |-> <<len>>]
           /\ tokens' = [tokens EXCEPT ![0] = len + 1]
    /\ iter' = iter + 1
    /\ \E next_token \in {0, 1} :
        drv_pc' = IF is_eos(next_token) \/ iter + 1 = sample_len - 1
                  THEN "done" ELSE "decode"
    /\ UNCHANGED <<drv, eos_token_id, allocated_blocks,
                   token_size_allocation, active_indices, attn_vars, rc_vars, ext_vars>>

\* ---- test_llama_model_random_block_order -------------------------------
\* rng.gen_range(0..100), drawn again while the block is already allocated.
free_blocks_any(blocks) == 0..99

free_blocks(blocks) == (0..99) \ Range(blocks)

random_prefill ==
    /\ drv = "none"
    /\ \E len \in 1..MaxPromptLen, eos \in {"Some", "None"} :
        LET c == [driver |-> "random", kind |-> "prefill", x_len |-> len,
                  input_positions |-> arange(0, len),
                  token_seq |-> [k \in 1..len |-> 0],
                  selected_token_indices |-> <<len - 1>>,
                  slot_mapping |->
                      arange(99 * test_block_size,
                             99 * test_block_size + (len % test_block_size)),
                  num_prefill_tokens |-> len,
                  num_decoding_tokens |-> 0,
                  prefill_metadata |-> "new",
                  decoding_metadata |-> "new",
                  query_start_locations |-> <<0, len>>,
                  sequence_start_locations |-> <<0, len>>,
                  block_tables |-> <<>>,
                  num_blocks_per_sequence |-> <<>>,
                  rows |-> <<>>,
                  sequence_lengths |-> <<len>>]
        IN  /\ eos_token_id' = eos
            /\ call' = c
            /\ IF forward_ok(c)
                THEN tokens' = [i \in {0} |-> len + 1] /\ drv_pc' = "decode"
                ELSE tokens' = [i \in {0} |-> len] /\ drv_pc' = "failed"
    /\ allocated_blocks' = <<99>>
    /\ drv' = "random"
    /\ UNCHANGED <<token_size_allocation, active_indices, iter,
                   attn_vars, rc_vars, ext_vars>>

random_decode ==
    /\ drv = "random" /\ drv_pc = "decode" /\ iter < SampleLen - 1
    /\ LET len == tokens[0]
       IN  /\ IF len % 16 = 1
                THEN \E num \in free_blocks(allocated_blocks) :
                        allocated_blocks' = Append(allocated_blocks, num)
                ELSE UNCHANGED allocated_blocks
           /\ LET nb == Len(allocated_blocks')
                  last_allocated_block == allocated_blocks'[nb]
              IN  call' = [driver |-> "random", kind |-> "decode",
                           x_len |-> 1,
                           input_positions |-> <<len - 1>>,
                           token_seq |-> <<0>>,
                           selected_token_indices |-> <<0>>,
                           slot_mapping |->
                               << last_allocated_block * test_block_size
                                  + ((len - 1) % test_block_size) >>,
                           num_prefill_tokens |-> 0,
                           num_decoding_tokens |-> 1,
                           prefill_metadata |-> "new",
                           decoding_metadata |-> "new",
                           query_start_locations |-> <<0, 1>>,
                           sequence_start_locations |-> <<0, len>>,
                           block_tables |-> << allocated_blocks' >>,
                           num_blocks_per_sequence |-> <<nb>>,
                           rows |-> <<0>>,
                           sequence_lengths |-> <<len>>]
           /\ tokens' = [tokens EXCEPT ![0] = len + 1]
    /\ iter' = iter + 1
    /\ \E next_token \in {0, 1} :
        drv_pc' = IF is_eos(next_token) \/ iter + 1 = SampleLen - 1
                  THEN "done" ELSE "decode"
    /\ UNCHANGED <<drv, eos_token_id, token_size_allocation, active_indices,
                   attn_vars, rc_vars, ext_vars>>

\* ---- test_llama_model_batch --------------------------------------------
token_size_allocation_no_reserve(max_tokens_len) ==
    (max_tokens_len \div test_block_size) * test_block_size

token_size_allocation_of(max_tokens_len) ==
    ((max_tokens_len + SampleLen + test_block_size) \div test_block_size)
        * test_block_size

total_num_blocks_per_sequence(tsa) ==
    (tsa + test_block_size - 1) \div test_block_size

\* The fold that pushes the running sum after each sequence.
RECURSIVE PrefixSums(_, _)
PrefixSums(lens, acc) ==
    IF lens = <<>> THEN <<>>
    ELSE <<acc + Head(lens)>> \o PrefixSums(Tail(lens), acc + Head(lens))

sequence_start_locs_no_zero(lens) == PrefixSums(lens, 0)

sequence_start_locs(lens) == <<0>> \o PrefixSums(lens, 0)

selected_fold_no_decrement(lens, acc, i) ==
    [k \in 1..Len(lens) |-> acc + Sum(SubSeq(lens, 1, k))]

\* The fold of selected_token_indices: the first sequence adds len - 1,
\* the following ones add len to the running value.
RECURSIVE selected_fold(_, _, _)
selected_fold(lens, acc, i) ==
    IF lens = <<>> THEN <<>>
    ELSE LET sum == IF i = 0 THEN acc + Head(lens) - 1 ELSE acc + Head(lens)
         IN  <<sum>> \o selected_fold(Tail(lens), sum, 1)

decode_token_count_batch(active) == NumPrompts

decode_token_count(active) == Len(active)

batch_prefill ==
    /\ drv = "none"
    /\ \E lens \in [1..NumPrompts -> 1..MaxPromptLen],
          eos \in {"Some", "None"} :
        LET n == NumPrompts
            num_prefill_tokens == Sum(lens)
            max_tokens_len == Max(Range(lens))
            tsa == token_size_allocation_of(max_tokens_len)
        IN  /\ eos_token_id' = eos
            /\ token_size_allocation' = tsa
            /\ call' =
                [driver |-> "batch", kind |-> "prefill",
                 x_len |-> num_prefill_tokens,
                 input_positions |->
                    Flatten([k \in 1..n |-> arange(0, lens[k])]),
                 token_seq |->
                    Flatten([k \in 1..n |-> [j \in 1..lens[k] |-> k - 1]]),
                 selected_token_indices |-> selected_fold(lens, 0, 0),
                 slot_mapping |->
                    Flatten([k \in 1..n |->
                        arange((k - 1) * tsa, (k - 1) * tsa + lens[k])]),
                 num_prefill_tokens |-> num_prefill_tokens,
                 num_decoding_tokens |-> 0,
                 prefill_metadata |-> "Some",
                 decoding_metadata |-> "None",
                 query_start_locations |-> sequence_start_locs(lens),
                 sequence_start_locations |-> sequence_start_locs(lens),
                 block_tables |-> <<>>,
                 num_blocks_per_sequence |-> <<>>,
                 rows |-> <<>>,
                 sequence_lengths |-> lens]
            /\ tokens' = [i \in 0..(n - 1) |-> lens[i + 1] + 1]
            /\ active_indices' = [k \in 1..n |-> k - 1]
    /\ drv' = "batch"
    /\ drv_pc' = "decode"
    /\ UNCHANGED <<allocated_blocks, iter, attn_vars, rc_vars, ext_vars>>

batch_decode ==
    /\ drv = "batch" /\ drv_pc = "decode" /\ iter < SampleLen - 1
    /\ active_indices # <<>>
    /\ LET num_active == Len(active_indices)
           tsa == token_size_allocation
           tnb == total_num_blocks_per_sequence(tsa)
           nbs == [r \in 1..num_active |->
                    (tokens[active_indices[r]] + 15) \div test_block_size]
           max_num_blocks == Max(Range(nbs))
       IN  /\ call' =
                [driver |-> "batch", kind |-> "decode",
                 x_len |-> num_active,
                 input_positions |->
                    [r \in 1..num_active |-> tokens[active_indices[r]] - 1],
                 token_seq |-> active_indices,
                 selected_token_indices |-> arange(0, num_active),
                 slot_mapping |->
                    [r \in 1..num_active |->
                        active_indices[r] * tsa
                            + tokens[active_indices[r]] - 1],
                 num_prefill_tokens |-> 0,
                 num_decoding_tokens |-> decode_token_count(active_indices),
                 prefill_metadata |-> "None",
                 decoding_metadata |-> "Some",
                 query_start_locations |-> <<>>,
                 sequence_start_locations |-> <<>>,
                 block_tables |->
                    [r \in 1..num_active |->
                        arange(active_indices[r] * tnb,
                               active_indices[r] * tnb + nbs[r])
                        \o [k \in 1..(max_num_blocks - nbs[r]) |-> 0]],
                 num_blocks_per_sequence |-> nbs,
                 rows |-> active_indices,
                 sequence_lengths |->
                    [r \in 1..num_active |-> tokens[active_indices[r]]]]
           /\ tokens' = [i \in DOMAIN tokens |->
                            IF i \in Range(active_indices)
                            THEN tokens[i] + 1 ELSE tokens[i]]
    /\ \E ended \in SUBSET Range(active_indices) :
        LET new_active_indices ==
                IF eos_token_id = "Some"
                THEN SelectSeq(active_indices, LAMBDA i : i \notin ended)
                ELSE <<>>
        IN  /\ active_indices' = new_active_indices
            /\ drv_pc' = IF new_active_indices = <<>>
                            \/ iter + 1 = SampleLen - 1
                         THEN "done" ELSE "decode"
    /\ iter' = iter + 1
    /\ UNCHANGED <<drv, eos_token_id, allocated_blocks,
                   token_size_allocation, attn_vars, rc_vars, ext_vars>>

(***************************************************************************)
(* The model forward call: src/models/src/llama.rs, Llama::forward,        *)
(* Block::forward, CausalSelfAttention::forward and apply_rotary_embed.    *)
(* The hidden state is followed by its shape and, per token, by the index  *)
(* of the input token it came from; a cache by its identity and by the     *)
(* tokens scattered into it.  Position values stay inside the rotary       *)
(* table and the weights have the shapes of the configuration.             *)
(***************************************************************************)
NumLayers == 2
FwdMaxTokens == 2
vocab_size == 32000

CacheIds == 1..(NumLayers + 1)

Step(op, layer, cache) == [op |-> op, layer |-> layer, cache |-> cache]

FwdErr(msg) == [result |-> "err", err |-> msg]

\* x.dims()[0] != 1 at the head of Llama::forward.
x_batch_mismatch(x_shape) == x_shape[1] # 1

\* x.dims3()? and batch_size != 1 at the head of
\* CausalSelfAttention::forward, on the embedded input [.., hidden_size].
attn_input_mismatch(x_shape) == Len(x_shape) + 1 # 3 \/ x_shape[1] # 1

rotary_positions_mismatch_numel(dims, num_total_tokens) ==
    elem_count(dims) # num_total_tokens

\* input_positions.dims() != [1, num_total_tokens]
rotary_positions_mismatch(dims, num_total_tokens) ==
    dims # <<1, num_total_tokens>>

\* input_positions.dtype() != DType::I64
rotary_dtype_mismatch(dtype) == dtype # "I64"

\* apply_rotary_embed on a [1, heads, num_total_tokens, head_dim] tensor.
apply_rotary_embed(b_sz, num_total_tokens, input_positions) ==
    IF b_sz # 1 THEN FwdErr("batch size must be 1")
    ELSE IF rotary_positions_mismatch(input_positions.shape, num_total_tokens)
    THEN FwdErr("index_positions must be of shape")
    ELSE IF rotary_dtype_mismatch(input_positions.dtype)
    THEN FwdErr("input_positions must be of dtype i64")
    ELSE [result |-> "ok"]

layer_cache_first(kv_caches, i) == kv_caches[1]

\* kv_caches[i], i counted from 0.
layer_cache(kv_caches, i) == kv_caches[i + 1]

\* The attention dispatcher behind self.attention.forward: it checks the
\* cache and the slot mapping, scatters the keys and values of the batch
\* into the cache it was given, then runs the attention kernel.
FlashAttention_forward(c, cache) ==
    IF cache \in c.bad_caches THEN FwdErr("kv_cache shape mismatch")
    ELSE IF c.slot_mapping_len # c.x_shape[2]
    THEN FwdErr("slot_mapping shape mismatch")
    ELSE [result |-> "ok"]

swallow_error(res) == FALSE

\* The ? after block.forward(..) and after self.attn.forward(..).
propagates_error(res) == res.result = "err"

logits_dtype_compute(model_dtype) == model_dtype

\* logits.to_dtype(DType::F32)
logits_dtype(model_dtype) == "F32"

\* x.index_select(selected_token_indices, 1) on [1, num_total_tokens, ..].
index_select(rows, indices) ==
    IF \E k \in DOMAIN indices : indices[k] + 1 \notin DOMAIN rows
    THEN FwdErr("index out of range")
    ELSE [result |-> "ok", rows |-> [k \in DOMAIN indices |-> rows[indices[k] + 1]]]

\* The calls: inputs of every shape the checks tell apart, one cache
\* sequence per length from none to one more than the layers, caches that
\* the dispatcher refuses, slot mappings of the right and of a wrong length.
FwdKvCaches ==
    { [i \in 1..n |-> ((i - 1 + off) % (NumLayers + 1)) + 1] :
        n \in 0..(NumLayers + 1), off \in {0, 1} }

FwdXShapes ==
    { <<b, n>> : b \in {1, 2}, n \in 1..FwdMaxTokens }
        \cup { <<1, n, 1>> : n \in 1..FwdMaxTokens }

FwdPositionShapes(n) == { <<1, n>>, <<n>>, <<1, n + 1>>, <<n, 1>> }

FwdSelected(n) == { <<>>, <<0>>, <<n - 1>>, <<n - 1, 0>>, <<n>> }

FwdCall(xs, ps, pd, sel, kv, bad, sl, dt) ==
    [x_shape |-> xs,
     input_positions |-> [shape |-> ps, dtype |-> pd],
     selected_token_indices |-> sel,
     kv_caches |-> kv,
     bad_caches |-> bad,
     slot_mapping_len |-> sl,
     dtype |-> dt]

FwdOthers == <<attn_vars, rc_vars, drv_vars, cm_vars, pa_vars, rt_vars>>

\* Llama::forward up to the loop over the blocks.
Llama_forward ==
    /\ fwd_pc = "idle"
    /\ \E xs \in FwdXShapes :
        \E ps \in FwdPositionShapes(xs[2]), pd \in {"I64", "U32"},
           sel \in FwdSelected(xs[2]), kv \in FwdKvCaches,
           bad \in {{}} \cup { {id} : id \in CacheIds },
           sl \in {xs[2], xs[2] + 1}, dt \in {"BF16", "F32"} :
            LET c == FwdCall(xs, ps, pd, sel, kv, bad, sl, dt)
            IN  /\ fwd_call' = c
                /\ IF x_batch_mismatch(c.x_shape)
                    THEN /\ fwd_pc' = "failed"
                         /\ fwd_out' = FwdErr("x must be of shape")
                         /\ UNCHANGED fwd_trace
                    ELSE /\ fwd_pc' = "block"
                         /\ fwd_trace' = <<Step("wte", -1, 0)>>
                         /\ UNCHANGED fwd_out
    /\ UNCHANGED <<fwd_layer, fwd_written, FwdOthers>>

\* One turn of the loop: kv_caches[i], then Block::forward and
\* CausalSelfAttention::forward up to the rotary embedding of q and k.
Block_forward ==
    /\ fwd_pc = "block"
    /\ LET c == fwd_call
           i == fwd_layer
           num_total_tokens == c.x_shape[2]
           rope == apply_rotary_embed(c.x_shape[1], num_total_tokens,
                                      c.input_positions)
       IN  IF i >= Len(c.kv_caches)
           THEN /\ fwd_pc' = "panicked"
                /\ fwd_out' = [result |-> "panic",
                               err |-> "index out of bounds"]
                /\ UNCHANGED fwd_trace
           ELSE IF attn_input_mismatch(c.x_shape)
           THEN /\ fwd_pc' = "failed"
                /\ fwd_out' = FwdErr("x must be of shape")
                /\ fwd_trace' = fwd_trace \o <<Step("rms_1", i, 0)>>
           ELSE IF propagates_error(rope)
           THEN /\ fwd_pc' = "failed"
                /\ fwd_out' = rope
                /\ fwd_trace' = fwd_trace \o
                    <<Step("rms_1", i, 0), Step("qkv_proj", i, 0)>>
           ELSE /\ fwd_pc' = "attention"
                /\ fwd_trace' = fwd_trace \o
                    <<Step("rms_1", i, 0), Step("qkv_proj", i, 0),
                      Step("rope_q", i, 0), Step("rope_k", i, 0)>>
                /\ UNCHANGED fwd_out
    /\ UNCHANGED <<fwd_call, fwd_layer, fwd_written, FwdOthers>>

\* self.attention.forward(&q, &k, &v, kv_cache, attention_metadata)?
CausalSelfAttention_forward ==
    /\ fwd_pc = "attention"
    /\ LET c == fwd_call
           i == fwd_layer
           kv_cache == layer_cache(c.kv_caches, i)
           o == FlashAttention_forward(c, kv_cache)
       IN  IF propagates_error(o)
           THEN /\ fwd_pc' = "failed"
                /\ fwd_out' = o
                /\ UNCHANGED <<fwd_trace, fwd_written>>
           ELSE /\ fwd_pc' = "residual"
                /\ IF o.result = "ok"
                    THEN /\ fwd_written' =
                            [fwd_written EXCEPT
                                ![kv_cache] = @ \cup (1..c.x_shape[2])]
                         /\ fwd_trace' = fwd_trace \o
                            <<Step("reshape_and_cache", i, kv_cache),
                              Step("attention", i, kv_cache)>>
                    ELSE UNCHANGED <<fwd_trace, fwd_written>>
                /\ UNCHANGED fwd_out
    /\ UNCHANGED <<fwd_call, fwd_layer, FwdOthers>>

\* The rest of the block: output projection, residual, feed-forward and
\* its residual; then the next turn of the loop.
Block_forward_mlp ==
    /\ fwd_pc = "residual"
    /\ LET i == fwd_layer
       IN  /\ fwd_trace' = fwd_trace \o
                <<Step("o_proj", i, 0), Step("residual_attn", i, 0),
                  Step("rms_2", i, 0), Step("mlp", i, 0),
                  Step("residual_mlp", i, 0)>>
           /\ fwd_layer' = i + 1
           /\ fwd_pc' = IF i + 1 = NumLayers THEN "final" ELSE "block"
    /\ UNCHANGED <<fwd_call, fwd_written, fwd_out, FwdOthers>>

\* After the loop: ln_f, index_select, lm_head, to_dtype.
Llama_forward_logits ==
    /\ fwd_pc = "final"
    /\ LET c == fwd_call
           hidden == [j \in 1..c.x_shape[2] |-> j - 1]
           x == index_select(hidden, c.selected_token_indices)
       IN  IF propagates_error(x)
           THEN /\ fwd_pc' = "failed"
                /\ fwd_out' = x
                /\ fwd_trace' = fwd_trace \o <<Step("ln_f", -1, 0)>>
           ELSE /\ fwd_pc' = "done"
                /\ fwd_trace' = fwd_trace \o
                    <<Step("ln_f", -1, 0), Step("index_select", -1, 0),
                      Step("lm_head", -1, 0), Step("to_dtype", -1, 0)>>
                /\ fwd_out' =
                    [result |-> "ok",
                     dtype |-> logits_dtype(c.dtype),
                     shape |-> <<1, Len(c.selected_token_indices),
                                 vocab_size>>,
                     rows |-> IF x.result = "ok" THEN x.rows
                              ELSE hidden]
    /\ UNCHANGED <<fwd_call, fwd_layer, fwd_written, FwdOthers>>

(***************************************************************************)
(* Cache maintenance: src/src/paged_attention/mod.rs, copy_blocks and      *)
(* swap_blocks.  A kv cache tensor is [2, num_blocks, ..]: index 0 is the  *)
(* key half, index 1 the value half; its content is followed per block.    *)
(* A block mapping tensor names pairs (source, destination); bits is what  *)
(* its buffer gives when read as 64-bit integer pairs, which are the named *)
(* pairs only when the elements are 64-bit integers.                       *)
(***************************************************************************)
CmBlocks == 2
CmLayers == 2
CmMaxPairs == 2

CmBlockIds == 0..(CmBlocks - 1)
CmHalves == {0, 1}

CmStore(base) ==
    [h \in CmHalves |-> [b \in CmBlockIds |-> base + 10 * h + b + 1]]

CmErr(msg) == [result |-> "err", err |-> msg, kernels |-> 0]

\* Tensor::i(k) on the first dimension.
index_ok(t, k) == Len(t.shape) >= 1 /\ k < t.shape[1]

\* The ways a kernel run can settle its races: per destination block, the
\* pair whose copy stays (0 when no pair writes the block).
CmPicks(pairs) ==
    { p \in [CmBlockIds -> 0..Len(pairs)] :
        \A b \in CmBlockIds :
            IF \A k \in DOMAIN pairs : pairs[k][2] # b THEN p[b] = 0
            ELSE p[b] # 0 /\ pairs[p[b]][2] = b }

\* The copy kernel on one half of one cache: every destination block gets
\* the content its source block had.
copy_blocks_kernel(blocks, pairs, p) ==
    [b \in CmBlockIds |->
        IF p[b] = 0 THEN blocks[b] ELSE blocks[pairs[p[b]][1]]]

\* The swap kernel on one half: destination store blocks get the content
\* of the paired source store blocks.
swap_blocks_kernel(src, dst, pairs, p) ==
    [b \in CmBlockIds |->
        IF p[b] = 0 THEN dst[b] ELSE src[pairs[p[b]][1]]]

\* The checks of copy_blocks_t in the order of the code; every one of them
\* comes before the single kernel call.
copy_blocks_t(T, kv_caches, block_mapping) ==
    IF block_mapping.dev # "Cuda"
        THEN CmErr("Only CUDA storage is supported")
    ELSE IF block_mapping.dtype # T THEN CmErr("block_mapping as_cuda_slice")
    ELSE IF \E k \in DOMAIN kv_caches : ~index_ok(kv_caches[k], 0)
        THEN CmErr("index 0")
    ELSE IF \E k \in DOMAIN kv_caches : ~index_ok(kv_caches[k], 1)
        THEN CmErr("index 1")
    ELSE IF \E k \in DOMAIN kv_caches : kv_caches[k].dev # "Cuda"
        THEN CmErr("Only CUDA storage is supported")
    ELSE IF \E k \in DOMAIN kv_caches : kv_caches[k].dtype # T
        THEN CmErr("kv_cache as_cuda_slice")
    ELSE [result |-> "ok", err |-> "", kernels |-> 1]

copy_blocks_outcome(kv_caches, block_mapping) ==
    IF kv_caches = <<>>
        THEN [result |-> "panic", err |-> "index out of bounds",
              kernels |-> 0]
    ELSE IF kv_caches[1].dtype \in {"F16", "BF16", "F32"}
        THEN copy_blocks_t(kv_caches[1].dtype, kv_caches, block_mapping)
    ELSE CmErr("Only f16, bf16 and f32 is supported")

\* The checks of swap_blocks_t in the order of the code.  The key half is
\* copied before the value half is indexed: kernels counts the kernel
\* calls made before the outcome.
swap_blocks_t(T, src_kv_cache, dst_kv_cache, src_to_dst) ==
    IF src_to_dst.dev # "Cuda" THEN CmErr("Only CUDA storage is supported")
    ELSE IF src_to_dst.dtype # T THEN CmErr("block_mapping as_cuda_slice")
    ELSE IF ~index_ok(src_kv_cache, 0) THEN CmErr("src index 0")
    ELSE IF ~index_ok(dst_kv_cache, 0) THEN CmErr("dst index 0")
    ELSE IF src_kv_cache.dev # "Cuda"
        THEN CmErr("Only CUDA storage is supported")
    ELSE IF dst_kv_cache.dev # "Cuda"
        THEN CmErr("Only CUDA storage is supported")
    ELSE IF src_kv_cache.dtype # T THEN CmErr("src as_cuda_slice")
    ELSE IF dst_kv_cache.dtype # T THEN CmErr("dst as_cuda_slice")
    ELSE IF ~index_ok(src_kv_cache, 1)
        THEN [result |-> "err", err |-> "src index 1", kernels |-> 1]
    ELSE IF ~index_ok(dst_kv_cache, 1)
        THEN [result |-> "err", err |-> "dst index 1", kernels |-> 1]
    ELSE [result |-> "ok", err |-> "", kernels |-> 2]

swap_blocks_outcome(src_kv_cache, dst_kv_cache, src_to_dst) ==
    IF src_kv_cache.dtype \in {"F16", "BF16", "F32"}
        THEN swap_blocks_t(src_kv_cache.dtype, src_kv_cache, dst_kv_cache,
                           src_to_dst)
    ELSE CmErr("Only f16, bf16 and f32 is supported")

\* The arguments: block mappings on either device, of 64-bit integers or
\* of a floating-point type, and caches that are well formed or wrong in
\* one respect.
CmPairSeqs ==
    UNION { [1..k -> CmBlockIds \X CmBlockIds] : k \in 0..CmMaxPairs }

BlockMapping(dev, dtype, pairs, bits) ==
    [dev |-> dev, dtype |-> dtype, pairs |-> pairs, bits |-> bits]

\* What a kernel run may read from a buffer that does not hold 64-bit
\* pairs: any pairs with distinct destinations, or two pairs that race for
\* block 0.
CmBits ==
    { q \in CmPairSeqs :
        \/ \A j, k \in DOMAIN q : j # k => q[j][2] # q[k][2]
        \/ q = <<<<0, 0>>, <<1, 0>>>> }

CmShortPairs == { q \in CmPairSeqs : Len(q) <= 1 }

CmMappings(T) ==
    { BlockMapping("Cuda", "I64", pr, pr) : pr \in CmPairSeqs }
    \cup { BlockMapping("Cpu", "I64", pr, pr) : pr \in CmShortPairs }
    \cup { BlockMapping("Cuda", OtherDType(T), pr, pr) : pr \in CmShortPairs }
    \cup { BlockMapping("Cuda", T, pr, bits) :
                pr \in {<<>>, <<<<0, 1>>>>}, bits \in CmBits }

CmCache(dev, dtype, d0) == Tensor(dev, dtype, <<d0, CmBlocks, 8>>)

CmCacheVariants(T) ==
    { CmCache("Cpu", T, 2), CmCache("Cuda", "U8", 2),
      CmCache("Cuda", OtherDType(T), 2), CmCache("Cuda", T, 1) }

CmDTypes == {"F16", "BF16", "F32", "U8"}

CmKvCaches(T) ==
    UNION { { [k \in 1..n |-> CmCache("Cuda", T, 2)] }
            \cup { [[k \in 1..n |-> CmCache("Cuda", T, 2)]
                        EXCEPT ![j] = v] :
                    j \in 1..n, v \in CmCacheVariants(T) } :
            n \in 0..CmLayers }

CmSwapPairs(T) ==
    { <<CmCache("Cuda", T, 2), CmCache("Cuda", T, 2)>> }
        \cup { <<v, CmCache("Cuda", T, 2)>> : v \in CmCacheVariants(T) }
        \cup { <<CmCache("Cuda", T, 2), v>> : v \in CmCacheVariants(T) }

\* A call has a defect in its caches or a mapping of more than one pair,
\* not both.
CmPlain(caches, T, bm) ==
    \/ \A k \in DOMAIN caches : caches[k] = CmCache("Cuda", T, 2)
    \/ Len(bm.bits) <= 1

CmOthers == <<attn_vars, rc_vars, drv_vars, fwd_vars, pa_vars, rt_vars>>

\* One call of PagedAttention::copy_blocks with the arguments c.
copy_blocks_call(c) ==
    LET out == copy_blocks_outcome(c.kv_caches, c.block_mapping)
        pairs == c.block_mapping.bits
        n == Len(c.kv_caches)
    IN  /\ cm_call' = c
        /\ cm_out' = out
        /\ IF out.kernels = 1
            THEN \E p \in [1..n -> [CmHalves -> CmPicks(pairs)]] :
                    cm_kv' = [l \in 1..CmLayers |->
                        IF l > n THEN cm_kv[l]
                        ELSE [h \in CmHalves |->
                            copy_blocks_kernel(cm_kv[l][h], pairs, p[l][h])]]
            ELSE UNCHANGED cm_kv

\* PagedAttention::copy_blocks; a second call repeats the arguments of the
\* first.
copy_blocks ==
    /\ cm_pc \in {"idle", "copied"}
    /\ cm_calls < 2
    /\ IF cm_calls = 0
        THEN \E T \in CmDTypes :
                \E kv \in CmKvCaches(T), bm \in CmMappings(T) :
                    /\ CmPlain(kv, T, bm)
                    /\ copy_blocks_call([kv_caches |-> kv,
                                         block_mapping |-> bm])
        ELSE copy_blocks_call(cm_call)
    /\ cm_first' = IF cm_calls = 0 THEN [kv |-> cm_kv'] ELSE cm_first
    /\ cm_calls' = cm_calls + 1
    /\ cm_pc' = "copied"
    /\ UNCHANGED <<cm_src, cm_dst, CmOthers>>

\* PagedAttention::swap_blocks: the key half, then the value half.
swap_blocks ==
    /\ cm_pc = "idle"
    /\ \E T \in CmDTypes :
        \E sd \in CmSwapPairs(T), bm \in CmMappings(T) :
            LET c == [src_kv_cache |-> sd[1], dst_kv_cache |-> sd[2],
                      src_to_dst |-> bm]
                out == swap_blocks_outcome(c.src_kv_cache, c.dst_kv_cache,
                                           c.src_to_dst)
                pairs == c.src_to_dst.bits
            IN  /\ CmPlain(sd, T, bm)
                /\ cm_call' = c
                /\ cm_out' = out
                /\ \E p \in [CmHalves -> CmPicks(pairs)] :
                    cm_dst' = [h \in CmHalves |->
                        IF h < out.kernels
                        THEN swap_blocks_kernel(cm_src[h], cm_dst[h], pairs,
                                                p[h])
                        ELSE cm_dst[h]]
    /\ cm_pc' = "swapped"
    /\ UNCHANGED <<cm_calls, cm_kv, cm_first, cm_src, CmOthers>>

(***************************************************************************)
(* PagedAttention::forward: src/src/paged_attention/mod.rs.                *)
(* The call flattens the slot mapping, computes the masked attention when  *)
(* a mask is given, brings query, key and value to the layout              *)
(* [tokens, heads, head_size], writes key and value into the caches when   *)
(* both are given, and returns the attention it computed.  The source has  *)
(* no value for a call without a mask: that call ends with "no_value".     *)
(***************************************************************************)
PaErr(msg) == [result |-> "err", err |-> msg]

\* Tensor::flatten(start, end) takes dimension indices, both below the rank.
flatten_ok(rank, start_dim, end_dim) == start_dim < rank /\ end_dim < rank

\* (batch_size, seq_len, heads, head_size) = shape.dims4()
dims4_ok(rank) == rank = 4

both_caches_first(has_key_cache, has_value_cache) == has_key_cache

\* key_cache.as_ref().is_some_and(|_| value_cache.is_some())
both_caches(has_key_cache, has_value_cache) ==
    has_key_cache /\ has_value_cache

\* The arguments: rc holds key, value and slot mapping as they reach
\* reshape_and_cache, and the two caches.
PaCall(mask, hk, hv, sm_rank, q_rank, cdt, nt, slots) ==
    [attention_mask |-> mask,
     has_key_cache |-> hk,
     has_value_cache |-> hv,
     slot_mapping_rank |-> sm_rank,
     query_rank |-> q_rank,
     rc |-> [RcCall("F16", nt, slots) EXCEPT !.key_cache.dtype = cdt,
                                              !.value_cache.dtype = cdt]]

\* Slot mappings of nt tokens: any slots, one per token, or one slot too
\* many.
PaSlots(nt) == [1..nt -> CacheSlots] \cup { arange(0, nt + 1) }

\* A call has a defect in its tensors or slots of its own choice, not both.
PaPlain(sm_rank, q_rank, cdt, nt, slots) ==
    \/ sm_rank = 1 /\ q_rank = 4 /\ cdt = "F16"
    \/ slots = arange(0, nt)

PaOthers ==
    <<attn_vars, rc_pc, rc_call, rc_out, drv_vars, fwd_vars, cm_vars, rt_vars>>

\* PagedAttention::forward, entry: the slot mapping is flattened when it
\* has more than one dimension.
PagedAttention_forward ==
    /\ pa_pc = "idle"
    /\ \E mask \in {"None", "Some"}, hk \in BOOLEAN, hv \in BOOLEAN,
          sm_rank \in {1, 2}, q_rank \in {3, 4}, cdt \in {"F16", "U8"},
          nt \in 1..RcMaxTokens :
        \E slots \in PaSlots(nt) :
            /\ PaPlain(sm_rank, q_rank, cdt, nt, slots)
            /\ pa_call' = PaCall(mask, hk, hv, sm_rank, q_rank, cdt, nt,
                                 slots)
    /\ IF pa_call'.slot_mapping_rank > 1
          /\ ~ flatten_ok(pa_call'.slot_mapping_rank, 0,
                          pa_call'.slot_mapping_rank)
        THEN /\ pa_pc' = "failed"
             /\ pa_out' = PaErr("flatten")
        ELSE /\ pa_pc' = "attention"
             /\ pa_out' = NoCall
    /\ UNCHANGED <<pa_trace, key_cache_data, value_cache_data, PaOthers>>

\* let attention = match attention_mask: softmax(q k^T * scale + mask) v.
masked_attention ==
    /\ pa_pc = "attention"
    /\ pa_trace' = IF pa_call.attention_mask = "Some"
                    THEN Append(pa_trace, "attention") ELSE pa_trace
    /\ pa_pc' = "layout"
    /\ UNCHANGED <<pa_call, pa_out, key_cache_data, value_cache_data,
                   PaOthers>>

\* The transposes, dims4 and the reshapes to [tokens, heads, head_size].
paged_layout ==
    /\ pa_pc = "layout"
    /\ IF dims4_ok(pa_call.query_rank)
        THEN /\ pa_pc' = "cache"
             /\ UNCHANGED pa_out
        ELSE /\ pa_pc' = "failed"
             /\ pa_out' = PaErr("dims4")
    /\ UNCHANGED <<pa_call, pa_trace, key_cache_data, value_cache_data,
                   PaOthers>>

\* reshape_and_cache(..)? when both caches are given.
cache_write ==
    /\ pa_pc = "cache"
    /\ IF both_caches(pa_call.has_key_cache, pa_call.has_value_cache)
        THEN LET out == reshape_and_cache_outcome(pa_call.rc)
             IN  IF out.kernel_called
                 THEN /\ key_cache_data' \in
                            reshape_and_cache_kernel(key_cache_data,
                                pa_call.rc.key.data,
                                pa_call.rc.slot_mapping.data)
                      /\ value_cache_data' \in
                            reshape_and_cache_kernel(value_cache_data,
                                pa_call.rc.value.data,
                                pa_call.rc.slot_mapping.data)
                      /\ pa_trace' = Append(pa_trace, "reshape_and_cache")
                      /\ pa_pc' = "return"
                      /\ UNCHANGED pa_out
                 ELSE /\ pa_pc' = "failed"
                      /\ pa_out' = PaErr(out.err)
                      /\ UNCHANGED <<pa_trace, key_cache_data,
                                     value_cache_data>>
        ELSE /\ pa_pc' = "return"
             /\ UNCHANGED <<pa_trace, pa_out, key_cache_data,
                            value_cache_data>>
    /\ UNCHANGED <<pa_call, PaOthers>>

\* if let Some(computed_attention) = attention { return Ok(..) }
PagedAttention_return ==
    /\ pa_pc = "return"
    /\ IF pa_call.attention_mask = "Some"
        THEN /\ pa_pc' = "done"
             /\ pa_out' = [result |-> "ok", err |-> ""]
        ELSE /\ pa_pc' = "no_value"
             /\ pa_out' = [result |-> "none", err |-> ""]
    /\ UNCHANGED <<pa_call, pa_trace, key_cache_data, value_cache_data,
                   PaOthers>>

(***************************************************************************)
(* The round trip through the block table.  A sequence is written into a   *)
(* key cache and a value cache: a prefill scatters positions 0..n-1 to the *)
(* slots of the slot policy, a decode step adds one position with the slot *)
(* computed in the decoding loop of test_llama_model_random_block_order.   *)
(* The attention kernels read position p of the sequence through the block *)
(* table.  The key written for position p is RtKey(p), the value RtValue(p)*)
(***************************************************************************)
RtBlocks == 4
RtBlockSize == 2

RtSlots == 0 .. (RtBlocks * RtBlockSize - 1)
RtKey(p) == 100 + p
RtValue(p) == 200 + p

\* Tables of n distinct physical blocks.
RtTables(n) ==
    { t \in [1..n -> 0..(RtBlocks - 1)] :
        \A j, k \in 1..n : j # k => t[j] # t[k] }

\* block_index * block_size + offset_in_block
slot_policy(block_table, p, block_size) ==
    block_table[(p \div block_size) + 1] * block_size + (p % block_size)

decode_slot_no_offset(last_allocated_block, len, block_size) ==
    last_allocated_block * block_size

\* last_allocated_block * block_size + (tokens.len() - 1) % block_size
decode_slot(last_allocated_block, len, block_size) ==
    last_allocated_block * block_size + ((len - 1) % block_size)

\* What a kernel reads for position p of a sequence: the slot
\* p mod block_size of the block the table names for p div block_size.
gather(cache, block_table, p, block_size) ==
    cache[block_table[(p \div block_size) + 1] * block_size
          + (p % block_size)]

RtOthers == <<attn_vars, rc_vars, drv_vars, fwd_vars, cm_vars, pa_vars>>

\* A prefill of n tokens over a table of ceil(n / block_size) blocks.
rt_prefill ==
    /\ rt_pc = "idle"
    /\ \E n \in 1..(RtBlocks * RtBlockSize) :
        \E t \in RtTables((n + RtBlockSize - 1) \div RtBlockSize) :
            LET slots == [i \in 1..n |-> slot_policy(t, i - 1, RtBlockSize)]
            IN  /\ rt_table' = t
                /\ rt_len' = n
                /\ rt_key_cache' \in
                        reshape_and_cache_kernel(rt_key_cache,
                            [i \in 1..n |-> RtKey(i - 1)], slots)
                /\ rt_value_cache' \in
                        reshape_and_cache_kernel(rt_value_cache,
                            [i \in 1..n |-> RtValue(i - 1)], slots)
    /\ rt_pc' = "written"
    /\ UNCHANGED RtOthers

\* A decode step: a block not yet in the table is added when the new token
\* is the first of a block, and the token is written to its slot.
rt_decode ==
    /\ rt_pc = "written"
    /\ rt_len < RtBlocks * RtBlockSize
    /\ LET len == rt_len + 1
       IN  /\ IF len % RtBlockSize = 1
                THEN \E num \in (0..(RtBlocks - 1)) \ Range(rt_table) :
                        rt_table' = Append(rt_table, num)
                ELSE UNCHANGED rt_table
           /\ LET last_allocated_block == rt_table'[Len(rt_table')]
                  slots == << decode_slot(last_allocated_block, len,
                                          RtBlockSize) >>
              IN  /\ rt_key_cache' \in
                        reshape_and_cache_kernel(rt_key_cache,
                            << RtKey(len - 1) >>, slots)
                  /\ rt_value_cache' \in
                        reshape_and_cache_kernel(rt_value_cache,
                            << RtValue(len - 1) >>, slots)
           /\ rt_len' = len
    /\ UNCHANGED <<rt_pc, RtOthers>>

(***************************************************************************)
(* Specifications                                                          *)
(***************************************************************************)
Init ==
    /\ attn_pc = "idle"
    /\ attn_call = NoCall
    /\ attn_out = NoCall
    /\ rc_pc = "idle"
    /\ rc_call = NoCall
    /\ rc_out = NoCall
    /\ key_cache_data = EmptyCache
    /\ value_cache_data = EmptyCache
    /\ drv = "none"
    /\ drv_pc = "start"
    /\ eos_token_id = "None"
    /\ tokens = <<>>
    /\ allocated_blocks = <<>>
    /\ token_size_allocation = 0
    /\ active_indices = <<>>
    /\ iter = 0
    /\ call = NoCall
    /\ fwd_pc = "idle"
    /\ fwd_call = NoCall
    /\ fwd_layer = 0
    /\ fwd_trace = <<>>
    /\ fwd_written = [id \in CacheIds |-> {}]
    /\ fwd_out = NoCall
    /\ cm_pc = "idle"
    /\ cm_call = NoCall
    /\ cm_out = NoCall
    /\ cm_calls = 0
    /\ cm_kv = [l \in 1..CmLayers |-> CmStore(100 * l)]
    /\ cm_first = NoCall
    /\ cm_src = CmStore(500)
    /\ cm_dst = CmStore(700)
    /\ pa_pc = "idle"
    /\ pa_call = NoCall
    /\ pa_trace = <<>>
    /\ pa_out = NoCall
    /\ rt_pc = "idle"
    /\ rt_table = <<>>
    /\ rt_len = 0
    /\ rt_key_cache = [s \in RtSlots |-> 0]
    /\ rt_value_cache = [s \in RtSlots |-> 0]

NextAttn == paged_attention

SpecAttn == Init /\ [][NextAttn]_vars

NextCache == reshape_and_cache

SpecCache == Init /\ [][NextCache]_vars

NextDrivers ==
    \/ single_prefill
    \/ single_decode
    \/ random_prefill
    \/ random_decode
    \/ batch_prefill
    \/ batch_decode

SpecDrivers == Init /\ [][NextDrivers]_vars

NextForward ==
    \/ Llama_forward
    \/ Block_forward
    \/ CausalSelfAttention_forward
    \/ Block_forward_mlp
    \/ Llama_forward_logits

SpecForward == Init /\ [][NextForward]_vars

NextMaintenance ==
    \/ copy_blocks
    \/ swap_blocks

SpecMaintenance == Init /\ [][NextMaintenance]_vars

\* The four operations that select their kernel by element type, one of
\* them per run.
NextOps ==
    \/ (rc_pc = "idle" /\ cm_pc = "idle" /\ paged_attention)
    \/ (attn_pc = "idle" /\ cm_pc = "idle" /\ reshape_and_cache)
    \/ (attn_pc = "idle" /\ rc_pc = "idle" /\ copy_blocks)
    \/ (attn_pc = "idle" /\ rc_pc = "idle" /\ swap_blocks)

SpecOps == Init /\ [][NextOps]_vars

NextDispatcher ==
    \/ PagedAttention_forward
    \/ masked_attention
    \/ paged_layout
    \/ cache_write
    \/ PagedAttention_return

SpecDispatcher == Init /\ [][NextDispatcher]_vars

NextRoundTrip ==
    \/ rt_prefill
    \/ rt_decode

SpecRoundTrip == Init /\ [][NextRoundTrip]_vars

(***************************************************************************)
(* Properties of the attention dispatcher                                  *)
(***************************************************************************)
CeilDiv(a, b) == IF a % b = 0 THEN a \div b ELSE (a \div b) + 1

AttnOk == attn_pc = "done" /\ attn_out.result = "ok"

\* C1: a call that passes validation runs exactly one kernel, and it is the
\* single-pass kernel exactly when (ceil(max_sequence_length / 512) = 1 or
\* num_sequences * num_heads > 512) and 512 is a multiple of block_size;
\* otherwise it is the two-pass kernel.
C1_SinglePassIff ==
    AttnOk =>
        LET num_sequences == attn_call.query.shape[1]
            num_heads == attn_call.query.shape[2]
            block_size == attn_call.key_cache.shape[4]
            single ==
                /\ \/ CeilDiv(attn_call.max_sequence_length, 512) = 1
                   \/ num_sequences * num_heads > 512
                /\ 512 % block_size = 0
        IN  /\ attn_out.kernel \in {"v1", "v2"}
            /\ single => attn_out.kernel = "v1"
            /\ ~ single => attn_out.kernel = "v2"

\* The single-pass kernel chosen for a context of several partitions,
\* because sequences x heads exceeds the partition size.
C1_Witness ==
    /\ AttnOk
    /\ attn_out.kernel = "v1"
    /\ attn_call.max_sequence_length > 512
    /\ attn_call.query.shape[1] * attn_call.query.shape[2] > 512

\* C2: a head size is accepted if and only if it is one of
\* supported_head_sizes: any other is rejected before a kernel runs, and
\* none of the supported ones is rejected for its size.
C2_HeadSizeAcceptedIffSupported ==
    (attn_pc = "done" /\ Len(attn_call.query.shape) = 3) =>
        LET head_size == attn_call.query.shape[3]
        IN  /\ head_size \notin supported_head_sizes =>
                attn_out.result = "err" /\ attn_out.kernel = "none"
            /\ head_size \in supported_head_sizes =>
                attn_out.err # "head_size"

\* The failures C4 lists, as the dispatcher compares the shapes.
C4_Listed(c) ==
    LET q == c.query.shape
        kc == c.key_cache.shape
        vc == c.value_cache.shape
    IN  \/ Len(q) # 3
        \/ c.block_tables.shape[1] # q[1]
        \/ elem_count(c.sequence_lengths.shape) # q[1]
        \/ Len(kc) # 5
        \/ Len(vc) # 4
        \/ Len(q) = 3 /\ Len(kc) = 5 /\ kc[3] # q[3] \div kc[5]
        \/ Len(q) = 3 /\ Len(kc) = 5 /\ vc # <<kc[1], kc[2], q[3], kc[4]>>
        \/ \E f \in {"key_cache", "value_cache", "block_tables",
                     "sequence_lengths"} : c[f].dev # "Cuda"

C5_UndersizedTableRejected ==
    (/\ attn_pc = "done"
     /\ Len(attn_call.block_tables.shape) = 2
     /\ Len(attn_call.key_cache.shape) = 5
     /\ \/ attn_call.block_tables.shape[2] = 0
        \/ attn_call.max_sequence_length >
            attn_call.block_tables.shape[2] * attn_call.key_cache.shape[4])
    => (attn_out.result = "err" /\ attn_out.kernel = "none")

(***************************************************************************)
(* Properties of the cache write                                           *)
(***************************************************************************)
\* The shape faults C3 lists, as reshape_and_cache_t compares the shapes.
C3_Listed(c) ==
    LET k == c.key.shape
        v == c.value.shape
        kc == c.key_cache.shape
        vc == c.value_cache.shape
        ranks == Len(k) = 3 /\ Len(v) = 3 /\ Len(kc) = 5 /\ Len(vc) = 4
    IN  \/ ~ ranks
        \/ ranks /\ k # v
        \/ ranks /\ (kc[2] # k[2] \/ kc[3] # k[3] \div kc[5])
        \/ ranks /\ vc # <<kc[1], k[2], k[3], kc[4]>>
        \/ ranks /\ elem_count(c.slot_mapping.shape) # k[1]

Called == drv # "none"

DecodeCall == Called /\ call.kind = "decode"

\* The block table of the sequence of token j of the call: the row given
\* with a decode call; at a prefill, the table the driver holds
\* (allocated_blocks) or, in the batch driver, the blocks its decode steps
\* give the sequence.
C6_Table(j) ==
    IF call.kind = "decode" THEN call.block_tables[j]
    ELSE IF call.driver = "random" THEN allocated_blocks
    ELSE LET tnb == total_num_blocks_per_sequence(token_size_allocation)
         IN  arange(call.token_seq[j] * tnb, (call.token_seq[j] + 1) * tnb)

\* C6: in the random-block-order driver and in the batch driver, every
\* token of a forward call, at position p of a sequence with block table T,
\* has the slot T[p div block_size] * block_size + p mod block_size.
C6_SlotPolicy ==
    (Called /\ call.driver \in {"random", "batch"}) =>
        \A j \in 1..call.x_len :
            LET p == call.input_positions[j]
                T == C6_Table(j)
            IN  /\ j \in DOMAIN call.slot_mapping
                /\ (p \div 16) + 1 \in DOMAIN T
                /\ call.slot_mapping[j] = T[(p \div 16) + 1] * 16 + (p % 16)

\* C7: no two tokens of a forward call have the same slot.
C7_SlotsInjective ==
    Called =>
        \A j, k \in DOMAIN call.slot_mapping :
            j # k => call.slot_mapping[j] # call.slot_mapping[k]

\* A batched decode step of several sequences, one of them past its first
\* block.
C7_Witness ==
    /\ DecodeCall
    /\ call.driver = "batch"
    /\ Len(call.slot_mapping) >= 2
    /\ \E j \in DOMAIN call.input_positions : call.input_positions[j] >= 16

\* C8: at every decode step the block table of each sequence has exactly
\* ceil(context_length / block_size) blocks, the token being decoded
\* counted in context_length.
C8_TableLengthExact ==
    DecodeCall =>
        \A r \in DOMAIN call.rows :
            call.num_blocks_per_sequence[r]
                = CeilDiv(call.sequence_lengths[r], 16)

C9_NumBlocks == IF call.driver = "batch" THEN batch_num_blocks
                ELSE test_num_blocks

\* C9 as stated: every entry of every row is a block index in
\* [0, num_blocks), no index is in two rows or twice in a row, and a row
\* has at least ceil(sequence_length / block_size) entries.
C9_EveryEntryExclusive ==
    DecodeCall =>
        LET bt == call.block_tables
        IN  /\ \A r \in DOMAIN bt : \A k \in DOMAIN bt[r] :
                bt[r][k] >= 0 /\ bt[r][k] < C9_NumBlocks
            /\ \A r \in DOMAIN bt : \A k1, k2 \in DOMAIN bt[r] :
                k1 # k2 => bt[r][k1] # bt[r][k2]
            /\ \A r1, r2 \in DOMAIN bt :
                r1 # r2 => Range(bt[r1]) \cap Range(bt[r2]) = {}
            /\ \A r \in DOMAIN bt :
                Len(bt[r]) >= CeilDiv(call.sequence_lengths[r], 16)

\* The entries of row r that hold the sequence: the first
\* ceil(sequence_length / block_size).
C9_Live(r) ==
    LET n == CeilDiv(call.sequence_lengths[r], 16)
        m == IF n < Len(call.block_tables[r]) THEN n
             ELSE Len(call.block_tables[r])
    IN  SubSeq(call.block_tables[r], 1, m)

\* C9 amended: the same, for the first ceil(sequence_length / block_size)
\* entries of each row; the entries after them are padding.
C9_LiveEntriesExclusive ==
    DecodeCall =>
        LET bt == call.block_tables
        IN  /\ \A r \in DOMAIN bt : \A k \in DOMAIN C9_Live(r) :
                C9_Live(r)[k] >= 0 /\ C9_Live(r)[k] < C9_NumBlocks
            /\ \A r \in DOMAIN bt : \A k1, k2 \in DOMAIN C9_Live(r) :
                k1 # k2 => C9_Live(r)[k1] # C9_Live(r)[k2]
            /\ \A r1, r2 \in DOMAIN bt :
                r1 # r2 => Range(C9_Live(r1)) \cap Range(C9_Live(r2)) = {}
            /\ \A r \in DOMAIN bt :
                Len(bt[r]) >= CeilDiv(call.sequence_lengths[r], 16)

\* A batched decode step in which a row is padded after its last block.
C9_Witness ==
    /\ DecodeCall
    /\ call.driver = "batch"
    /\ \E r \in DOMAIN call.block_tables :
        Len(call.block_tables[r]) > CeilDiv(call.sequence_lengths[r], 16)

PrefillCall == Called /\ call.kind = "prefill"

\* The sequences of the call in the order the caller gave them, and the
\* number of tokens each contributes to the flattened input.
C11_NumSequences == Len(call.sequence_lengths)

C11_TokenCount(i) ==
    Cardinality({ j \in DOMAIN call.token_seq : call.token_seq[j] = i - 1 })

C11_Cumulative(locs) ==
    /\ Len(locs) = C11_NumSequences + 1
    /\ locs[1] = 0
    /\ \A i \in 1..C11_NumSequences :
        /\ locs[i] < locs[i + 1]
        /\ locs[i + 1] - locs[i] = C11_TokenCount(i)
    /\ locs[Len(locs)] = call.num_prefill_tokens

\* C11: for a prefill batch of n sequences, query_start_locations and
\* sequence_start_locations have n + 1 entries, start at 0, increase, step
\* by the token count of each sequence in the caller's order, and end at
\* num_prefill_tokens.
C11_StartLocationsCumulative ==
    PrefillCall =>
        /\ C11_Cumulative(call.query_start_locations)
        /\ C11_Cumulative(call.sequence_start_locations)
        /\ \A j \in 1..(Len(call.token_seq) - 1) :
            call.token_seq[j] <= call.token_seq[j + 1]

\* A batched prefill of sequences of different lengths.
C11_Witness ==
    /\ PrefillCall
    /\ call.driver = "batch"
    /\ C11_NumSequences >= 2
    /\ call.sequence_lengths[1] # call.sequence_lengths[2]
    /\ call.query_start_locations[2] = call.sequence_lengths[1]

(***************************************************************************)
(* Properties of the model forward call                                    *)
(***************************************************************************)
FwdCalled == fwd_pc # "idle"

IsPrefix(s, t) == Len(s) <= Len(t) /\ \A k \in 1..Len(s) : s[k] = t[k]

\* The cache the caller supplied for layer i (0 when it supplied none).
C12_CacheOf(i) ==
    IF i + 1 \in DOMAIN fwd_call.kv_caches THEN fwd_call.kv_caches[i + 1]
    ELSE 0

C12_LayerOrder(i) ==
    <<Step("rms_1", i, 0), Step("qkv_proj", i, 0), Step("rope_q", i, 0),
      Step("rope_k", i, 0), Step("reshape_and_cache", i, C12_CacheOf(i)),
      Step("attention", i, C12_CacheOf(i)), Step("o_proj", i, 0),
      Step("residual_attn", i, 0), Step("rms_2", i, 0), Step("mlp", i, 0),
      Step("residual_mlp", i, 0)>>

RECURSIVE C12_LayersFrom(_)
C12_LayersFrom(i) ==
    IF i >= NumLayers THEN <<>>
    ELSE C12_LayerOrder(i) \o C12_LayersFrom(i + 1)

C12_Order ==
    <<Step("wte", -1, 0)>> \o C12_LayersFrom(0)
        \o <<Step("ln_f", -1, 0), Step("index_select", -1, 0),
             Step("lm_head", -1, 0), Step("to_dtype", -1, 0)>>

\* C12: the steps of a forward call are a prefix of: embedding; layers
\* 0..L-1 in index order, each once, layer i with kv_caches[i] and no other
\* cache, rotary embedding of q and k before the attention dispatch, the
\* attention residual before the feed-forward and its residual; final
\* normalization; selection; output projection.  A call that completes has
\* performed all of them and has written exactly the caches of its layers.
C12_StepsInOrder ==
    FwdCalled =>
        /\ IsPrefix(fwd_trace, C12_Order)
        /\ fwd_pc = "done" =>
            /\ fwd_trace = C12_Order
            /\ \A id \in CacheIds :
                fwd_written[id] # {} <=>
                    \E i \in 0..(NumLayers - 1) : id = C12_CacheOf(i)

\* A completed call whose caches are not numbered like its layers and that
\* was given one cache more than it has layers.
C12_Witness ==
    /\ fwd_pc = "done"
    /\ Len(fwd_call.kv_caches) > NumLayers
    /\ fwd_call.kv_caches[1] # 1
    /\ Len(fwd_trace) = Len(C12_Order)

C13_BadInput ==
    \/ fwd_call.x_shape[1] # 1
    \/ fwd_call.input_positions.shape # <<1, fwd_call.x_shape[2]>>
    \/ fwd_call.input_positions.dtype # "I64"

C13_NothingDispatched ==
    /\ \A k \in DOMAIN fwd_trace :
        fwd_trace[k].op \notin {"reshape_and_cache", "attention"}
    /\ \A id \in CacheIds : fwd_written[id] = {}

\* C13: a forward call whose input has a batch dimension other than 1, or
\* whose position tensor is not of shape [1, num_tokens] or not of type
\* I64, returns an error before the attention dispatcher of any layer is
\* invoked and before any cache is written.
C13_BadInputFailsBeforeDispatch ==
    (FwdCalled /\ C13_BadInput) =>
        /\ C13_NothingDispatched
        /\ fwd_pc \in {"block", "failed"}
        /\ fwd_pc = "failed" => fwd_out.result = "err"

\* C14: a successful forward call returns logits of type F32 whatever the
\* compute type of the model, with one row of width vocab_size per entry of
\* the selected-position tensor, row k being that of the k-th selected
\* position; unselected positions give no row.
C14_LogitsRows ==
    fwd_pc = "done" =>
        LET sel == fwd_call.selected_token_indices
        IN  /\ fwd_out.result = "ok"
            /\ fwd_out.dtype = "F32"
            /\ fwd_out.shape[Len(fwd_out.shape) - 1] = Len(sel)
            /\ fwd_out.shape[Len(fwd_out.shape)] = vocab_size
            /\ Len(fwd_out.rows) = Len(sel)
            /\ \A k \in 1..Len(sel) : fwd_out.rows[k] = sel[k]

\* A model computing in BF16, two tokens, the last one selected first.
C14_Witness ==
    /\ fwd_pc = "done"
    /\ fwd_call.dtype = "BF16"
    /\ fwd_call.x_shape = <<1, 2>>
    /\ fwd_call.selected_token_indices = <<1, 0>>
    /\ fwd_out.rows = <<1, 0>>

C20_Batch == 1..fwd_call.x_shape[2]

\* C20: a forward call that completes has written the keys and values of
\* the batch into the cache of every layer; one that fails while
\* processing layer k has invoked no layer after k and left the caches of
\* the layers after k unchanged, while the caches of the layers before k
\* hold the tokens of the batch.
C20_CompletesOrFailsAtLayer ==
    /\ fwd_pc = "done" =>
        \A i \in 0..(NumLayers - 1) : fwd_written[C12_CacheOf(i)] = C20_Batch
    /\ fwd_pc \in {"failed", "panicked"} =>
        /\ \A k \in DOMAIN fwd_trace : fwd_trace[k].layer <= fwd_layer
        /\ \A i \in 0..(NumLayers - 1) :
            /\ (i > fwd_layer /\ C12_CacheOf(i) # 0) =>
                fwd_written[C12_CacheOf(i)] = {}
            /\ i < fwd_layer => fwd_written[C12_CacheOf(i)] = C20_Batch

\* A call that failed in the second layer after the first one had written.
C20_Witness ==
    /\ fwd_pc = "failed"
    /\ fwd_layer = 1
    /\ fwd_written[fwd_call.kv_caches[1]] = C20_Batch
    /\ fwd_written[fwd_call.kv_caches[2]] = {}

(***************************************************************************)
(* Properties of the key/value scatter                                     *)
(***************************************************************************)
C19_Slots == rc_call.slot_mapping.data

C19_DistinctSlots ==
    \A i, j \in DOMAIN C19_Slots : i # j => C19_Slots[i] # C19_Slots[j]

C19_Scattered(cache, data) ==
    /\ \A i \in DOMAIN C19_Slots :
        i \in DOMAIN data /\ cache[C19_Slots[i]] = data[i]
    /\ \A s \in CacheSlots :
        (\A i \in DOMAIN C19_Slots : C19_Slots[i] # s) =>
            cache[s] = EmptyCache[s]

\* C19: after the scatter of a batch whose slot mapping holds pairwise
\* distinct slots, whatever the order in which the per-token writes landed,
\* slot s holds the key and the value of the one token mapped to s and
\* every slot the mapping does not name keeps its previous content.
C19_DisjointScatterDeterministic ==
    (rc_pc = "done" /\ rc_out.kernel_called /\ C19_DistinctSlots) =>
        /\ C19_Scattered(key_cache_data, rc_call.key.data)
        /\ C19_Scattered(value_cache_data, rc_call.value.data)

\* Two tokens written to distinct slots given in descending order, the
\* other slots left as they were.
C19_Witness ==
    /\ rc_pc = "done"
    /\ rc_out.kernel_called
    /\ Len(C19_Slots) = 2
    /\ C19_Slots[1] > C19_Slots[2]
    /\ key_cache_data[C19_Slots[1]] = rc_call.key.data[1]
    /\ value_cache_data[C19_Slots[2]] = rc_call.value.data[2]
    /\ \E s \in CacheSlots : key_cache_data[s] = 0

(***************************************************************************)
(* Properties of the cache maintenance operations                          *)
(***************************************************************************)
FloatTypes == {"F16", "BF16", "F32"}

CmInitKv == [l \in 1..CmLayers |-> CmStore(100 * l)]

C15_Pairs == cm_call.block_mapping.pairs

C16_WellFormedCache(t) ==
    t.dev = "Cuda" /\ t.dtype \in FloatTypes /\ t.shape[1] = 2

C16_WellFormedMapping(bm) == bm.dev = "Cuda" /\ bm.dtype = "I64"

C16_NamedDst(pairs, b) == \E k \in DOMAIN pairs : pairs[k][2] = b

\* blocks: one half of a cache after the call, before: the same before it,
\* src: the half the sources are read from.
C16_Effect(blocks, before, src, pairs, done) ==
    \A b \in CmBlockIds :
        IF C16_NamedDst(pairs, b)
        THEN done => \E k \in DOMAIN pairs :
                        pairs[k][2] = b /\ blocks[b] = src[pairs[k][1]]
        ELSE blocks[b] = before[b]

\* C16: copy_blocks changes, in every layer's key and value cache, only the
\* blocks named as destinations, setting each to the content of its paired
\* source block; swap_blocks changes only the named blocks of the
\* destination store, in both halves, and leaves the source store as it
\* was.
C16_OnlyNamedDestinationsChange ==
    /\ (cm_pc = "copied" /\ cm_calls = 1) =>
        LET kv == cm_call.kv_caches
            bm == cm_call.block_mapping
            done == /\ kv # <<>>
                    /\ \A k \in DOMAIN kv :
                        C16_WellFormedCache(kv[k]) /\ kv[k].dtype = kv[1].dtype
                    /\ C16_WellFormedMapping(bm)
        IN  \A l \in 1..CmLayers, h \in CmHalves :
                IF l \in DOMAIN kv
                THEN C16_Effect(cm_kv[l][h], CmInitKv[l][h], CmInitKv[l][h],
                                bm.pairs, done)
                ELSE cm_kv[l][h] = CmInitKv[l][h]
    /\ cm_pc = "swapped" =>
        LET bm == cm_call.src_to_dst
            done == /\ C16_WellFormedCache(cm_call.src_kv_cache)
                    /\ C16_WellFormedCache(cm_call.dst_kv_cache)
                    /\ cm_call.src_kv_cache.dtype = cm_call.dst_kv_cache.dtype
                    /\ C16_WellFormedMapping(bm)
        IN  /\ cm_src = CmStore(500)
            /\ \A h \in CmHalves :
                C16_Effect(cm_dst[h], CmStore(700)[h], cm_src[h], bm.pairs,
                           done)

\* C17: given a cache or query of an element type other than F16, BF16 and
\* F32, reshape_and_cache, swap_blocks, copy_blocks and the paged-attention
\* forward each return an error without calling a kernel and without
\* changing a cache; paged attention on a CPU query always returns an error.
C17_UnsupportedTypeRejected ==
    /\ (attn_pc = "done"
            /\ (\/ attn_call.query.dtype \notin FloatTypes
                \/ attn_call.key_cache.dtype \notin FloatTypes
                \/ attn_call.value_cache.dtype \notin FloatTypes
                \/ attn_call.query.dev = "Cpu")) =>
        /\ attn_out.result = "err"
        /\ attn_out.kernel = "none"
        /\ ~attn_out.out_alloc
    /\ (rc_pc = "done"
            /\ \E f \in {"key", "value", "key_cache", "value_cache"} :
                rc_call[f].dtype \notin FloatTypes) =>
        /\ rc_out.result = "err"
        /\ ~rc_out.kernel_called
        /\ key_cache_data = EmptyCache /\ value_cache_data = EmptyCache
    /\ (cm_pc = "copied"
            /\ \E k \in DOMAIN cm_call.kv_caches :
                cm_call.kv_caches[k].dtype \notin FloatTypes) =>
        /\ cm_out.result = "err"
        /\ cm_out.kernels = 0
        /\ cm_kv = CmInitKv
    /\ (cm_pc = "swapped"
            /\ (\/ cm_call.src_kv_cache.dtype \notin FloatTypes
                \/ cm_call.dst_kv_cache.dtype \notin FloatTypes)) =>
        /\ cm_out.result = "err"
        /\ cm_out.kernels = 0
        /\ cm_dst = CmStore(700) /\ cm_src = CmStore(500)

\* A swap into a destination store of bytes from a half-precision source,
\* with a mapping the element type check lets through.
C17_Witness ==
    /\ cm_pc = "swapped"
    /\ cm_call.src_kv_cache.dtype = "F16"
    /\ cm_call.dst_kv_cache.dtype = "U8"
    /\ cm_call.src_to_dst.dtype = "F16"
    /\ cm_call.src_to_dst.bits # <<>>
    /\ cm_out.result = "err"

(***************************************************************************)
(* C18: in a PagedAttention::forward call that is given a cache, the keys  *)
(* and values of the batch are written into the cache before any attention *)
(* of the call is computed: wherever the call has computed attention, the  *)
(* cache write is an earlier entry of its trace.                           *)
(***************************************************************************)
PaCachePresent ==
    /\ pa_pc # "idle"
    /\ pa_call.has_key_cache
    /\ pa_call.has_value_cache

C18_WriteBeforeAttention ==
    PaCachePresent =>
        \A i \in 1..Len(pa_trace) :
            pa_trace[i] = "attention" =>
                \E j \in 1..(i - 1) : pa_trace[j] = "reshape_and_cache"

(***************************************************************************)
(* C21: with block_size = 16, a single sequence prefilled with 3 tokens    *)
(* has a block table of length 1 during each of the following 29 decode    *)
(* steps and a block table of length 2 at the 30th.                        *)
(***************************************************************************)
C21_Prompt == tokens[0] - 1 - iter

C21_Decoding ==
    /\ drv = "single"
    /\ call.kind = "decode"
    /\ C21_Prompt = 3

C21_TableLength == Len(call.block_tables[1])

C21_OneBlockFor29Steps ==
    C21_Decoding =>
        /\ iter <= 29 => C21_TableLength = 1
        /\ iter = 30 => C21_TableLength = 2

\* C21, amended: the 3-token prompt is written to slots 0..2 without a
\* block table; the table of a decode step has length 1 while the context
\* is shorter than a block (the first 12 decode steps), and length 2 at
\* every context length from 17 to 31.
C21_TableLengthByContext ==
    /\ (drv = "single" /\ call.kind = "prefill" /\ call.x_len = 3) =>
        /\ call.block_tables = <<>>
        /\ call.slot_mapping = <<0, 1, 2>>
    /\ C21_Decoding =>
        LET context == call.sequence_lengths[1]
        IN  /\ context = 3 + iter
            /\ iter <= 12 => C21_TableLength = 1
            /\ context \in 17..31 => C21_TableLength = 2

C21_Witness ==
    /\ C21_Decoding
    /\ iter = 14
    /\ C21_TableLength = 2

(***************************************************************************)
(* C22: every forward call of a driver supplies a slot mapping with        *)
(* exactly one slot per input token of the call, whatever the prompt       *)
(* length.                                                                 *)
(***************************************************************************)
C22_OneSlotPerToken ==
    Called => Len(call.slot_mapping) = call.x_len

(***************************************************************************)
(* C23: after positions 0..n-1 of a sequence have been written to the      *)
(* slots of the slot policy, over any table of distinct blocks, reading    *)
(* position p through the block table returns the key and the value        *)
(* written for p, for every p < n: read in order, the cache holds the      *)
(* contiguous keys and values.                                             *)
(***************************************************************************)
C23_RoundTrip ==
    rt_pc = "written" =>
        /\ [p \in 0..(rt_len - 1) |->
                gather(rt_key_cache, rt_table, p, RtBlockSize)]
            = [p \in 0..(rt_len - 1) |-> RtKey(p)]
        /\ [p \in 0..(rt_len - 1) |->
                gather(rt_value_cache, rt_table, p, RtBlockSize)]
            = [p \in 0..(rt_len - 1) |-> RtValue(p)]

\* A sequence of three blocks that are not in ascending order, the last
\* one reached by decoding.
C23_Witness ==
    /\ rt_pc = "written"
    /\ rt_len = 2 * RtBlockSize + 1
    /\ rt_table[1] > rt_table[2]
    /\ rt_table[3] < rt_table[1]
    /\ gather(rt_key_cache, rt_table, 2 * RtBlockSize, RtBlockSize)
        = RtKey(2 * RtBlockSize)

(***************************************************************************)
(* C24: in the batched decoding loop a sequence is active in the next step *)
(* exactly when it is active now and the token sampled for it is not an    *)
(* end token, so that without an end token every active sequence stays     *)
(* active; a sequence that left the active set does not come back; row idx *)
(* of a step belongs to sequence active_indices[idx]; the loop ends        *)
(* exactly when the active set is empty or sample_len - 1 steps have run.  *)
(***************************************************************************)
C24_Step == drv = "batch" /\ drv_pc = "decode" /\ iter' = iter + 1

C24_ActiveSetFollowsEndTokens ==
    [][C24_Step =>
        /\ call'.rows = active_indices
        /\ \E ended \in SUBSET Range(active_indices) :
            /\ eos_token_id = "None" => ended = {}
            /\ active_indices' =
                    SelectSeq(active_indices, LAMBDA i : i \notin ended)
        /\ drv_pc' = "done" <=>
                (active_indices' = <<>> \/ iter' = SampleLen - 1)]_vars

(***************************************************************************)
(* C25: in a prefill batch of n sequences flattened in order, the i-th     *)
(* selected position is the sum of the token counts of sequences 0..i      *)
(* minus one, the flattened index of the last token of sequence i; the     *)
(* selected positions increase strictly and each lies in the range of its  *)
(* own sequence.                                                           *)
(***************************************************************************)
C25_Batch == PrefillCall /\ call.driver = "batch"

C25_Tokens(i) == { j \in DOMAIN call.token_seq : call.token_seq[j] = i - 1 }

C25_TokensUpTo(i) ==
    { j \in DOMAIN call.token_seq : call.token_seq[j] <= i - 1 }

C25_SelectedLastTokens ==
    C25_Batch =>
        LET sel == call.selected_token_indices
        IN  /\ Len(sel) = C11_NumSequences
            /\ \A i \in 1..Len(sel) :
                /\ sel[i] = Cardinality(C25_TokensUpTo(i)) - 1
                /\ sel[i] + 1 \in C25_Tokens(i)
                /\ \A j \in C25_Tokens(i) : j <= sel[i] + 1
                /\ i > 1 => sel[i - 1] < sel[i]

\* A batch whose sequences differ in length, the first one longer than one
\* block.
C25_Witness ==
    /\ C25_Batch
    /\ Len(call.selected_token_indices) = NumPrompts
    /\ call.sequence_lengths[1] > test_block_size
    /\ call.sequence_lengths[2] = 1
    /\ call.selected_token_indices[2] = test_block_size + 1

(***************************************************************************)
(* C26: PagedAttention::forward writes to the cache only when a cache is   *)
(* given: with the key cache or the value cache absent the call writes     *)
(* nothing and leaves the caches as they were; with both present it        *)
(* performs exactly one scatter of the keys and values of the batch,       *)
(* unless it returns an error.                                             *)
(***************************************************************************)
C26_Writes ==
    Cardinality({ i \in DOMAIN pa_trace : pa_trace[i] = "reshape_and_cache" })

C26_Ended == pa_pc \in {"done", "failed", "no_value"}

C26_Untouched ==
    /\ C26_Writes = 0
    /\ key_cache_data = EmptyCache
    /\ value_cache_data = EmptyCache

\* Every slot of the mapping holds a token sent to it, every other slot is
\* as it was.
C26_Scattered(cache, data) ==
    LET slots == pa_call.rc.slot_mapping.data
    IN  \A s \in CacheSlots :
            IF \E i \in DOMAIN slots : slots[i] = s
            THEN \E i \in DOMAIN slots : slots[i] = s /\ cache[s] = data[i]
            ELSE cache[s] = EmptyCache[s]

C26_AbsentCacheNoWrite ==
    (pa_pc # "idle" /\ ~(pa_call.has_key_cache /\ pa_call.has_value_cache))
        => C26_Untouched

\* C26: a call without the key cache or without the value cache writes
\* nothing; a call with both performs exactly one scatter of its keys and
\* values, or returns an error and leaves the caches as they were.
C26_WriteIffCachePresentAndAccepted ==
    /\ C26_AbsentCacheNoWrite
    /\ (C26_Ended /\ pa_call.has_key_cache /\ pa_call.has_value_cache) =>
            IF pa_out.result = "err"
            THEN C26_Untouched
            ELSE /\ C26_Writes = 1
                 /\ C26_Scattered(key_cache_data, pa_call.rc.key.data)
                 /\ C26_Scattered(value_cache_data, pa_call.rc.value.data)

C26_Witness ==
    /\ pa_pc = "done"
    /\ pa_call.has_key_cache /\ pa_call.has_value_cache
    /\ C26_Writes = 1
    /\ pa_call.rc.key.shape[1] = 2
    /\ key_cache_data # EmptyCache
    /\ value_cache_data # key_cache_data

(***************************************************************************)
(* C27: whenever the two-pass kernel is selected and 512 is a multiple of  *)
(* the cache block size, max_num_partitions is at least 2 and the scratch  *)
(* buffers [sequences, heads, max_num_partitions, head_dim] and            *)
(* [sequences, heads, max_num_partitions] are not empty, for every         *)
(* max_sequence_length from 0 on.                                          *)
(***************************************************************************)
C27_ScratchNonEmpty ==
    (/\ AttnOk
     /\ attn_out.kernel = "v2"
     /\ PARTITION_SIZE % attn_call.key_cache.shape[4] = 0) =>
        /\ attn_out.max_num_partitions >= 2
        /\ elem_count(attn_out.tmp_out_shape) > 0
        /\ elem_count(attn_out.exp_sums_shape) > 0

(***************************************************************************)
(* C28: whenever reshape_and_cache or the paged-attention forward accepts  *)
(* a key cache [num_blocks, heads, d, block_size, x] for head size h,      *)
(* d * x = h: a key cache whose d * x differs from h is rejected.          *)
(***************************************************************************)
C28_Packed(key_cache, head_size) ==
    key_cache.shape[3] * key_cache.shape[5] = head_size

C28_KeyCachePacksHeadSize ==
    /\ AttnOk => C28_Packed(attn_call.key_cache, attn_call.query.shape[3])
    /\ (rc_pc = "done" /\ rc_out.result = "ok") =>
            C28_Packed(rc_call.key_cache, rc_call.key.shape[3])

(***************************************************************************)
(* C29: swap_blocks completes every check on its inputs before the first   *)
(* block copy: a call that returns an error has modified neither the key   *)
(* half nor the value half of the destination store.                       *)
(***************************************************************************)
C29_SwapAllOrNothing ==
    (cm_pc = "swapped" /\ cm_out.result = "err") =>
        /\ cm_out.kernels = 0
        /\ cm_dst = CmStore(700)
        /\ cm_src = CmStore(500)

(***************************************************************************)
(* C30: a forward call consumes one cache per layer.  A call with fewer    *)
(* caches than the model has layers is rejected with an error value before *)
(* any layer runs and before any cache is written, it never aborts; caches *)
(* beyond the number of layers are never written.                          *)
(***************************************************************************)
C30_TooFewCaches == FwdCalled /\ Len(fwd_call.kv_caches) < NumLayers

C30_OneCachePerLayer ==
    /\ C30_TooFewCaches =>
        /\ fwd_pc # "panicked"
        /\ \A k \in DOMAIN fwd_trace : fwd_trace[k].layer = -1
        /\ \A id \in CacheIds : fwd_written[id] = {}
        /\ fwd_pc \in {"done", "failed"} => fwd_out.result = "err"
    /\ FwdCalled =>
        \A k \in DOMAIN fwd_call.kv_caches :
            k > NumLayers => fwd_written[fwd_call.kv_caches[k]] = {}

====
